---- MODULE Spec2Model ----
(***************************************************************************)
(* A model of the manifest acquisition pipeline of SteamKotakLegends:      *)
(* ManifestService (the orchestrator, the installers, the ledger           *)
(* installed.json, removeGame, disableAutoUpdate), KernelosService and     *)
(* ManifestorService (the two browser-automation adapters).                *)
(*                                                                         *)
(* Two specifications share the definitions of the installers:            *)
(*   SpecInstall  the installers and removeGame applied, one after the     *)
(*                other, to bundles drawn from Payloads;                   *)
(*   Spec         downloadManifest calls, callback by callback: the        *)
(*                ManifestHub request and its write stream, the Kernelos   *)
(*                and Manifestor adapters with their windows, timers and   *)
(*                polls, then the installers.                              *)
(***************************************************************************)
EXTENDS Integers, Sequences, FiniteSets, TLC

\* ------------------------------------------------------------------ bounds

\* installer / removeGame operations in one behaviour of SpecInstall
MaxOps == 2

\* downloadManifest calls in one behaviour of Spec
MaxCalls == 2

\* removeGame calls in one behaviour of Spec
MaxRemoves == 1

\* poll budget of the Kernelos adapter (maxAttempts = 60 in the source,
\* scaled down: the poll only counts up to it)
KernelosMaxAttempts == 1

\* poll budget of the Manifestor adapter (maxAttempts = 240 in the source)
ManifestorMaxAttempts == 1

\* invocations of one adapter class in one behaviour of SpecAdapters
MaxInvocations == 2

\* the longest appmanifest text, in tokens, that disableAutoUpdate is applied
\* to on its own
MaxAcfLen == 4

\* SpecOverlap: calls of the main process that may be in flight together
MaxFlights == 3

\* SpecOnlineFix: where the counters of up_fix requests and reloads stop
UpFixCap == 2

\* SpecTools: downloadAndInstall calls made, redirects followed in one call
MaxToolsCalls == 3
MaxRedirects == 1

\* ------------------------------------------------------- names and paths

Ids == {"570", "440"}

STPLUGIN_PATH == "stplug-in"
DEPOTCACHE_PATH == "depotcache"

\* the extension compared as it is written
AsWritten(ext) == ext

\* path.extname(name).toLowerCase(): a file name is its base and its
\* extension as written; the extension is folded to lower case
ToLowerCase(ext) ==
  CASE ext = ".LUA" -> ".lua"
    [] ext = ".VDF" -> ".vdf"
    [] ext = ".MANIFEST" -> ".manifest"
    [] ext = ".JSON" -> ".json"
    [] OTHER -> ext

ExtName(name) == ToLowerCase(name.ext)

FooLua == [base |-> "foo", ext |-> ".lua"]
BarManifest == [base |-> "bar", ext |-> ".manifest"]
AppVdf == [base |-> "app", ext |-> ".vdf"]
UpperLua == [base |-> "up", ext |-> ".LUA"]
ReadmeTxt == [base |-> "readme", ext |-> ".txt"]
InfoJson == [base |-> "info", ext |-> ".json"]
DataZip == [base |-> "data", ext |-> ".zip"]

\* directories inside a bundle, as paths below the extraction directory;
\* "ManifestHub" stands for the folder ManifestHub-<appId> of the call's id
RootDir == << >>
HubDir == <<"ManifestHub">>
SubDir == <<"ManifestHub", "sub">>
DeepDir == <<"v1", "data">>

\* content of a .json file: a document with a name field, or one that does
\* not parse (or has no name); "-" for every other file
NoContent == "-"
JsonNamed == "Half-Life"
JsonInvalid == "not json"

File(dir, name, content) == [dir |-> dir, name |-> name, json |-> content]

\* the order in which readdirSync lists the items of a directory (by name)
ItemOrder == <<"app", "bar", "foo", "info", "ManifestHub", "readme", "sub", "up", "v1", "data">>

IsPrefix(p, q) == Len(p) <= Len(q) /\ SubSeq(q, 1, Len(p)) = p

SamePath(e, f) == e.dir = f.dir /\ e.name = f.name

\* ------------------------------------------------------------- payloads

\* what a download left on disk: no file, or bytes that start with "PK" or
\* not (magic), that adm-zip can read or not (parse: it looks for the END
\* header from the end of the file, so bytes before the first entry do not
\* stop it), and the files of the archive
Payload(magic, parse, entries) ==
  [exists |-> TRUE, magic |-> magic, parse |-> parse, entries |-> entries]

NoFile == [exists |-> FALSE, magic |-> FALSE, parse |-> FALSE, entries |-> {}]
HtmlPage == Payload(FALSE, FALSE, {})
TruncatedZip == Payload(TRUE, FALSE, {})
EmptyFile == Payload(FALSE, FALSE, {})

BundleDirs == {RootDir, HubDir, SubDir}

BundleFiles ==
  {File(d, FooLua, NoContent) : d \in BundleDirs}
    \cup {File(d, ReadmeTxt, NoContent) : d \in BundleDirs}
    \cup {File(d, InfoJson, JsonNamed) : d \in BundleDirs}

\* spec.md section 8, scenario B: payload and descriptor two directories deep
ScenarioB ==
  { File(DeepDir, FooLua, NoContent), File(DeepDir, BarManifest, NoContent),
    File(DeepDir, ReadmeTxt, NoContent), File(DeepDir, InfoJson, JsonNamed) }

\* the same scenario as ManifestHub lays a branch out: below ManifestHub-<id>
ScenarioHub ==
  { File(SubDir, FooLua, NoContent), File(HubDir, BarManifest, NoContent),
    File(HubDir, InfoJson, JsonInvalid), File(SubDir, InfoJson, JsonNamed) }

\* a ManifestHub branch with one script and its descriptor
HubPair == {File(HubDir, FooLua, NoContent), File(HubDir, InfoJson, JsonNamed)}

\* a ManifestHub branch with files of each kind, an extension in upper case,
\* and a file of no kind
ScenarioKinds ==
  { File(HubDir, UpperLua, NoContent), File(HubDir, AppVdf, NoContent),
    File(HubDir, BarManifest, NoContent), File(HubDir, FooLua, NoContent),
    File(HubDir, ReadmeTxt, NoContent) }

\* the archives drawn as inputs: the empty archive, every archive of one
\* file, and the four bundles above
Bundles ==
  {b \in SUBSET BundleFiles : Cardinality(b) <= 1}
    \cup {ScenarioB, ScenarioHub, HubPair, ScenarioKinds}

\* archives whose first bytes are not "PK" although adm-zip reads them
\* (a self-extracting archive: a program stub before the first entry)
SfxBundles == {ScenarioHub, {File(RootDir, FooLua, NoContent)}}

Payloads ==
  {Payload(TRUE, TRUE, b) : b \in Bundles}
    \cup {Payload(FALSE, TRUE, b) : b \in SfxBundles}
    \cup {NoFile, HtmlPage, TruncatedZip}

\* names a site gives a directly downloaded (non-archive) file
DirectNames == {FooLua, BarManifest, AppVdf, UpperLua, ReadmeTxt}

\* ------------------------------------------------------------- results

Ok(id, name) == [success |-> TRUE, appId |-> id, name |-> name, error |-> ""]
Err(msg) == [success |-> FALSE, appId |-> "", name |-> "", error |-> msg]
NoResult == [success |-> FALSE, appId |-> "", name |-> "", error |-> "(pending)"]

ErrNotFound == "No manifest found for App ID"
ErrExtract == "Failed to extract"
ErrNoFolder == "Extracted folder not found"
ErrNoFiles == "No valid manifest files found in download"
ErrNoZip == "ZIP file not found"
ErrUnknownType == "Unknown file type"
ErrInstall == "Failed to install"
ErrNotInstalled == "Game not found in installed list"

\* ------------------------------------------------------------ I/O faults

\* An operation meets at most one I/O failure: extractAllTo throws
\* ("extract"), copyFileSync to one destination throws ("copy"),
\* writeFileSync of installed.json throws before it touched the file
\* ("write") or after it truncated it ("writeTorn"), reading or writing the
\* appmanifest throws ("hook"), unlinkSync throws ("unlink": of the
\* downloaded file in an installer, of the listed files in removeGame).
NoPath == << >>
Fault(kind, dest) == [kind |-> kind, dest |-> dest]
NoFault == Fault("none", NoPath)

CopyFault == Fault("copy", <<STPLUGIN_PATH, FooLua>>)

ArchiveFaults ==
  {NoFault, CopyFault}
    \cup {Fault(k, NoPath) : k \in {"extract", "write", "writeTorn", "hook", "unlink"}}

DirectFaults ==
  {NoFault, CopyFault} \cup {Fault(k, NoPath) : k \in {"write", "writeTorn", "hook"}}

RemoveFaults == {NoFault} \cup {Fault(k, NoPath) : k \in {"unlink", "write", "writeTorn"}}

\* ------------------------------------------------------------- variables

VARIABLES
  ledger,      \* installed.json: [state: absent | ok | corrupt, text: its JSON tokens]
  disk,        \* the files present in stplug-in and depotcache, as <<dir, name>>
  extractDir,  \* per id, the files present below manifests/<id>
  acf,         \* per id, the text of steamapps/appmanifest_<id>.acf, or NoAcf
  last,        \* the last installer or removeGame run, its inputs and what it returned
  ops,         \* SpecInstall: operations done
  calls,       \* Spec: downloadManifest calls started
  removes,     \* Spec: removeGame calls made
  pc,          \* where the downloadManifest call in flight stands
  appId,       \* its appId
  result,      \* what its promise resolved with, NoResult before
  settle,      \* the promise: pending | fulfilled | rejected
  unhandled,   \* a rejection no handler took (the promise then stays pending)
  tried,       \* the adapters the call has started, in order
  hub,         \* the ManifestHub request: idle | request | redirect | body | ...
  file,        \* the write stream on zipPath
  kernelos,    \* the Kernelos adapter's invocation
  manifestor,  \* the Manifestor adapter's invocation
  adapter,     \* SpecAdapters: the adapter class whose invocations are followed
  inv,         \* SpecAdapters: its invocations, in the order they were made
  flight,      \* SpecOverlap: the overlapping calls of the main process
  fix,         \* SpecOnlineFix: the downloadOnlineFix call in flight
  ui,          \* SpecRenderer: the renderer's page state
  tools        \* SpecTools: the installer cache and the download in flight

fsVars == <<ledger, disk, extractDir, acf>>
callVars ==
  <<calls, removes, pc, appId, result, settle, unhandled, tried, hub, file, kernelos,
    manifestor>>

auxVars == <<flight, fix, ui, tools>>

\* the file-system state the installers read and write, as one value
FS == [ledger |-> ledger, disk |-> disk, extractDir |-> extractDir, acf |-> acf]

\* --------------------------------------------------------------- ledger

\* an InstalledGame; installedAt (the wall clock) is left out
Game(id, name, files) == [appId |-> id, name |-> name, files |-> files]

\* JSON text as its tokens: the punctuation, the keys, and the strings with
\* their value
JsonToken(t, v) == [t |-> t, v |-> v]

\* the array replacer ['appId', 'name', 'files'] applies to nested objects
\* too: the entries of files are written without their members
RECURSIVE StringifyFilesFiltered(_)
StringifyFilesFiltered(files) ==
  IF files = << >> THEN << >>
  ELSE <<JsonToken("{", ""), JsonToken("}", "")>> \o StringifyFilesFiltered(Tail(files))

\* JSON.stringify of the files array of a record, between its brackets
RECURSIVE StringifyFiles(_)
StringifyFiles(files) ==
  IF files = << >> THEN << >>
  ELSE <<JsonToken("{", ""),
         JsonToken("key", "path"), JsonToken("string", Head(files).path),
         JsonToken("key", "type"), JsonToken("string", Head(files).type),
         JsonToken("}", "")>> \o StringifyFiles(Tail(files))

RECURSIVE StringifyGames(_)
StringifyGames(games) ==
  IF games = << >> THEN << >>
  ELSE LET g == Head(games)
       IN <<JsonToken("{", ""),
            JsonToken("key", "appId"), JsonToken("string", g.appId),
            JsonToken("key", "name"), JsonToken("string", g.name),
            JsonToken("key", "files"), JsonToken("[", "")>>
            \o StringifyFiles(g.files)
            \o <<JsonToken("]", ""), JsonToken("}", "")>>
            \o StringifyGames(Tail(games))

\* JSON.stringify(filtered, null, 2)
JsonStringify(games) ==
  <<JsonToken("[", "")>> \o StringifyGames(games) \o <<JsonToken("]", "")>>

\* a parse that stopped at position next with value val, or failed
Parsed(val, next) == [ok |-> TRUE, val |-> val, next |-> next]
SyntaxError == [ok |-> FALSE, val |-> << >>, next |-> 0]

\* the parser before the first token: mode is what it expects next (start |
\* games | game | gameValue | files | file | fileValue | end | error), game
\* and file are the objects under construction - a member the text does not
\* give stays undefined -, key and fkey the member names read last
ParseStart ==
  [mode |-> "start", games |-> << >>,
   game |-> [appId |-> "undefined", name |-> "undefined", files |-> << >>], key |-> "",
   files |-> << >>, file |-> [path |-> NoPath, type |-> "undefined"], fkey |-> ""]

\* the parser takes one token
Step(st, tok) ==
  CASE st.mode = "start" /\ tok.t = "[" -> [st EXCEPT !.mode = "games"]
    [] st.mode = "games" /\ tok.t = "{" ->
         [st EXCEPT !.mode = "game", !.game = ParseStart.game]
    [] st.mode = "games" /\ tok.t = "]" -> [st EXCEPT !.mode = "end"]
    [] st.mode = "game" /\ tok.t = "key" -> [st EXCEPT !.mode = "gameValue", !.key = tok.v]
    [] st.mode = "game" /\ tok.t = "}" ->
         [st EXCEPT !.mode = "games", !.games = Append(@, st.game)]
    [] st.mode = "gameValue" /\ tok.t = "string" ->
         [st EXCEPT !.mode = "game", !.game[st.key] = tok.v]
    [] st.mode = "gameValue" /\ tok.t = "[" -> [st EXCEPT !.mode = "files", !.files = << >>]
    [] st.mode = "files" /\ tok.t = "{" ->
         [st EXCEPT !.mode = "file", !.file = ParseStart.file]
    [] st.mode = "files" /\ tok.t = "]" ->
         [st EXCEPT !.mode = "game", !.game[st.key] = st.files]
    [] st.mode = "file" /\ tok.t = "key" -> [st EXCEPT !.mode = "fileValue", !.fkey = tok.v]
    [] st.mode = "file" /\ tok.t = "}" ->
         [st EXCEPT !.mode = "files", !.files = Append(@, st.file)]
    [] st.mode = "fileValue" /\ tok.t = "string" ->
         [st EXCEPT !.mode = "file", !.file[st.fkey] = tok.v]
    [] OTHER -> [st EXCEPT !.mode = "error"]

\* the tokens from position i on, one after the other
RECURSIVE ParseFrom(_, _, _)
ParseFrom(text, i, st) ==
  IF i > Len(text) \/ st.mode = "error" THEN st
  ELSE LET next == Step(st, text[i])
       IN IF next.mode = "error" THEN next ELSE ParseFrom(text, i + 1, next)

\* JSON.parse(data) of installed.json: the value, or a SyntaxError when the
\* text ends early or a token is out of place
JsonParse(text) ==
  LET st == ParseFrom(text, 1, ParseStart)
  IN IF st.mode = "end" THEN Parsed(st.games, Len(text) + 1) ELSE SyntaxError

\* installed.json: absent, or the text the last writeFileSync left, or what
\* a write that failed part-way left of it
NoLedger == [state |-> "absent", text |-> << >>]
LedgerOf(games) == [state |-> "ok", text |-> JsonStringify(games)]
TornLedger == [state |-> "corrupt", text |-> <<JsonToken("[", "")>>]

\* getInstalledGames: [] when installed.json is absent or does not parse
GetInstalledGames(l) ==
  LET parsed == JsonParse(l.text)
  IN IF l.state # "absent" /\ parsed.ok THEN parsed.val ELSE << >>

\* JSON.parse outside a try block: a file that does not parse throws
ReadThrowsOnCorrupt(l) == l.state = "corrupt"

\* whether getInstalledGames lets an exception out to its caller: existsSync
\* guards the absent file and the catch takes what read and parse throw
ReadThrows(l) == FALSE

\* a filter that keeps every record
FilterNothing(games, id) == games

\* games.filter(g => g.appId !== appId)
FilterOut(games, id) == SelectSeq(games, LAMBDA g : g.appId # id)

\* a write in a try/catch that only logs, as disableAutoUpdate has it
AddSwallowingErrors(l, game, fault) ==
  CASE fault.kind = "write" -> [ledger |-> l, threw |-> FALSE]
    [] fault.kind = "writeTorn" -> [ledger |-> TornLedger, threw |-> FALSE]
    [] OTHER -> [ledger |->
                   LedgerOf(Append(FilterOut(GetInstalledGames(l), game.appId), game)),
                 threw |-> FALSE]

\* the record put first (unshift) where the code pushes it
PrependToInstalledGames(l, game, fault) ==
  [ledger |-> LedgerOf(<<game>> \o FilterOut(GetInstalledGames(l), game.appId)),
   threw |-> FALSE]

\* addToInstalledGames: read, drop the record of the same id, push, write.
\* [ledger: the file afterwards, threw: writeFileSync threw]
AddToInstalledGames(l, game, fault) ==
  LET filtered == Append(FilterOut(GetInstalledGames(l), game.appId), game)
  IN CASE ReadThrows(l) -> [ledger |-> l, threw |-> TRUE]
       [] fault.kind = "write" -> [ledger |-> l, threw |-> TRUE]
       [] fault.kind = "writeTorn" -> [ledger |-> TornLedger, threw |-> TRUE]
       [] OTHER -> [ledger |-> LedgerOf(filtered), threw |-> FALSE]

\* ------------------------------------------------------ disableAutoUpdate

\* The appmanifest text as its tokens: braces, other keys, and the
\* AutoUpdateBehavior key with a numeric value ("AUB0", "AUB1": the
\* replacement text, "AUB2") or with a value the pattern "\d+" does not
\* match ("AUBx").
NoAcf == <<"ENOENT">>
AubTokens == {"AUB0", "AUB1", "AUB2", "AUBx"}
AubNumeric == {"AUB0", "AUB1", "AUB2"}
AcfTokens == {"{", "}", "other"} \cup AubTokens

\* every appmanifest text of at most MaxAcfLen tokens
AcfContents == UNION {[1..n -> AcfTokens] : n \in 0..MaxAcfLen}

\* content.indexOf('}') from position i on, 0 when there is none
IndexOfBrace(content, i) ==
  LET first == {k \in 1..Len(content) : content[k] = "}"}
  IN IF first = {} \/ i = 0 THEN 0
     ELSE CHOOSE k \in first : \A j \in first : k <= j

\* content.lastIndexOf('}'), 0 when there is none
RECURSIVE LastIndexOfBrace(_, _)
LastIndexOfBrace(content, i) ==
  IF i = 0 THEN 0
  ELSE IF content[i] = "}" THEN i ELSE LastIndexOfBrace(content, i - 1)

\* a patch that inserts the key before the last brace whether or not the
\* content already holds it
PatchAcfInserting(content) ==
  LET k == LastIndexOfBrace(content, Len(content))
  IN IF k = 0 THEN content
     ELSE SubSeq(content, 1, k - 1) \o <<"AUB1">> \o SubSeq(content, k, Len(content))

\* the new content of disableAutoUpdate: content.replace(/.../g, ...) when
\* content.includes the key, the insertion before lastIndexOf('}') otherwise
PatchAcf(content) ==
  IF \E i \in 1..Len(content) : content[i] \in AubTokens
  THEN [i \in 1..Len(content) |->
          IF content[i] \in AubNumeric THEN "AUB1" ELSE content[i]]
  ELSE LET k == LastIndexOfBrace(content, Len(content))
       IN IF k = 0 THEN content
          ELSE SubSeq(content, 1, k - 1) \o <<"AUB1">> \o SubSeq(content, k, Len(content))

\* a disableAutoUpdate that writes a fresh appmanifest when there is none
DisableAutoUpdateCreating(a, id, fault) ==
  IF fault.kind = "hook" THEN a
  ELSE IF a[id] = NoAcf THEN [a EXCEPT ![id] = <<"{", "AUB1", "}">>]
  ELSE [a EXCEPT ![id] = PatchAcf(a[id])]

\* disableAutoUpdate: nothing when the file is absent; an I/O failure is
\* caught and logged, the file is left as it was
DisableAutoUpdate(a, id, fault) ==
  IF a[id] = NoAcf \/ fault.kind = "hook" THEN a
  ELSE [a EXCEPT ![id] = PatchAcf(a[id])]

\* ------------------------------------------------------- classification

\* the destination of a file by its extension, NoPath when it has none
DestPath(name) ==
  LET ext == ExtName(name)
  IN IF ext = ".lua" \/ ext = ".vdf" THEN <<STPLUGIN_PATH, name>>
     ELSE IF ext = ".manifest" THEN <<DEPOTCACHE_PATH, name>>
     ELSE NoPath

\* the kind chosen between lua and vdf only
FileTypeLuaOrVdf(name) == IF ExtName(name) = ".lua" THEN "lua" ELSE "vdf"

FileType(name) ==
  LET ext == ExtName(name)
  IN IF ext = ".lua" \/ ext = ".vdf" THEN (IF ext = ".lua" THEN "lua" ELSE "vdf")
     ELSE IF ext = ".manifest" THEN "manifest"
     ELSE ""

\* a walk that pushes the entry before it copies the file
CopyOneRecordFirst(name, fault, st) ==
  LET dest == DestPath(name)
      failed == fault.kind = "copy" /\ fault.dest = dest
  IN IF dest = NoPath THEN st
     ELSE [files |-> Append(st.files, [path |-> dest, type |-> FileType(name)]),
           disk |-> IF failed THEN st.disk ELSE st.disk \cup {dest}]

\* one file of the walk: copy it when it has a destination, and record it
\* when the copy did not throw. st = [files: installedFiles, disk]
CopyOne(name, fault, st) ==
  LET dest == DestPath(name)
  IN IF dest = NoPath THEN st
     ELSE IF fault.kind = "copy" /\ fault.dest = dest THEN st
     ELSE [files |-> Append(st.files, [path |-> dest, type |-> FileType(name)]),
           disk |-> st.disk \cup {dest}]

\* zip.extractAllTo(extractPath, true): the archive's files are written
\* over what the directory holds
ExtractAllTo(present, entries) ==
  {e \in present : ~\E f \in entries : SamePath(e, f)} \cup entries

\* findFiles of extractAndInstallKernelos: the items of dir in readdirSync
\* order from item i on, directories entered depth first
RECURSIVE FindFiles(_, _, _, _, _)
FindFiles(dir, i, tree, fault, st) ==
  IF i > Len(ItemOrder) THEN st
  ELSE LET item == ItemOrder[i]
           sub == Append(dir, item)
           here == {e \in tree : e.dir = dir /\ e.name.base = item}
           st1 == IF \E e \in tree : IsPrefix(sub, e.dir)
                  THEN FindFiles(sub, 1, tree, fault, st)
                  ELSE IF here # {}
                  THEN CopyOne((CHOOSE e \in here : TRUE).name, fault, st)
                  ELSE st
       IN FindFiles(dir, i + 1, tree, fault, st1)

\* the loop of extractAndInstall over readdirSync(extractedFolder): only the
\* folder's own items; a directory among them has no extension that counts.
\* st = [files, disk, name: gameName]
RECURSIVE HubLoop(_, _, _, _)
HubLoop(i, tree, fault, st) ==
  IF i > Len(ItemOrder) THEN st
  ELSE LET item == ItemOrder[i]
           here == {e \in tree : e.dir = HubDir /\ e.name.base = item}
           st1 ==
             IF here = {} THEN st
             ELSE LET e == CHOOSE f \in here : TRUE
                      named == IF ExtName(e.name) = ".json" /\ e.json # JsonInvalid
                               THEN e.json ELSE st.name
                      c == CopyOne(e.name, fault, [files |-> st.files, disk |-> st.disk])
                  IN [files |-> c.files, disk |-> c.disk, name |-> named]
       IN HubLoop(i + 1, tree, fault, st1)

\* ----------------------------------------------------------- installers

\* What an installer or removeGame did: the file system afterwards, the
\* value returned, whether extractAllTo was called on the payload, whether
\* the call threw instead of returning.
Outcome(f, res, extracted, threw) ==
  [fs |-> f, res |-> res, extracted |-> extracted, threw |-> threw]

Thrown(f, extracted) == Outcome(f, NoResult, extracted, TRUE)

\* try { body } catch (err) { return { success: false, error: msg } }
Catch(out, msg) ==
  IF out.threw THEN Outcome(out.fs, Err(msg), out.extracted, FALSE) ELSE out

HasHubFolder(tree) == \E e \in tree : IsPrefix(HubDir, e.dir)

\* the try block of extractAndInstall: new AdmZip(zipPath) throws when the
\* file is missing or has no END header, and nothing before it looks at the
\* file; the record is written whatever the loop copied
ExtractAndInstallBody(f, payload, id, fault) ==
  IF ~payload.exists \/ ~payload.parse THEN Thrown(f, FALSE)
  ELSE IF fault.kind = "extract" THEN Thrown(f, TRUE)
  ELSE
    LET tree == ExtractAllTo(f.extractDir[id], payload.entries)
        f1 == [f EXCEPT !.extractDir[id] = tree]
        loop == HubLoop(1, tree, fault, [files |-> << >>, disk |-> f.disk, name |-> id])
        add == AddToInstalledGames(f.ledger, Game(id, loop.name, loop.files), fault)
        f2 == [f1 EXCEPT !.disk = loop.disk, !.ledger = add.ledger]
        f3 == [f2 EXCEPT !.acf = DisableAutoUpdate(f.acf, id, fault)]
    IN IF ~HasHubFolder(tree) THEN Outcome(f1, Err(ErrNoFolder), TRUE, FALSE)
       ELSE IF add.threw THEN Thrown(f2, TRUE)
       ELSE IF fault.kind = "unlink" THEN Thrown(f3, TRUE)
       ELSE Outcome(f3, Ok(id, loop.name), TRUE, FALSE)

\* extractAndInstall: the ManifestHub archive at zipPath
ExtractAndInstall(f, payload, id, fault) ==
  Catch(ExtractAndInstallBody(f, payload, id, fault), ErrExtract)

\* whether the first two bytes are 0x50 0x4B
ValidZip(payload) == payload.magic

\* the try block of extractAndInstallKernelos: the file must exist and start
\* with "PK" before adm-zip sees it; no record is written when the walk
\* copied nothing; the final unlink of the archive has a catch of its own
ExtractAndInstallKernelosBody(f, payload, id, fault) ==
  IF ~payload.exists THEN Outcome(f, Err(ErrNoZip), FALSE, FALSE)
  ELSE IF ~ValidZip(payload) THEN Outcome(f, Err(ErrNotFound), FALSE, FALSE)
  ELSE IF ~payload.parse THEN Thrown(f, FALSE)
  ELSE IF fault.kind = "extract" THEN Thrown(f, TRUE)
  ELSE
    LET tree == ExtractAllTo(f.extractDir[id], payload.entries)
        walk == FindFiles(RootDir, 1, tree, fault, [files |-> << >>, disk |-> f.disk])
        f1 == [f EXCEPT !.extractDir[id] = tree, !.disk = walk.disk]
        add == AddToInstalledGames(f.ledger, Game(id, id, walk.files), fault)
        f2 == [f1 EXCEPT !.ledger = add.ledger]
        f3 == [f2 EXCEPT !.acf = DisableAutoUpdate(f.acf, id, fault)]
    IN IF Len(walk.files) = 0 THEN Outcome(f1, Err(ErrNoFiles), TRUE, FALSE)
       ELSE IF add.threw THEN Thrown(f2, TRUE)
       ELSE Outcome(f3, Ok(id, id), TRUE, FALSE)

\* extractAndInstallKernelos: an archive an automation adapter downloaded
ExtractAndInstallKernelos(f, payload, id, fault) ==
  Catch(ExtractAndInstallKernelosBody(f, payload, id, fault), ErrExtract)

\* an install that first deletes the files the id's previous record lists
InstallDirectFileReplacing(f, payload, filename, id, fault) ==
  LET dest == DestPath(filename)
      games == GetInstalledGames(f.ledger)
      stale == UNION {{games[i].files[j].path : j \in 1..Len(games[i].files)} :
                        i \in {n \in 1..Len(games) : games[n].appId = id}}
      add == AddToInstalledGames(
               f.ledger, Game(id, id, <<[path |-> dest, type |-> FileType(filename)]>>), fault)
      f1 == [f EXCEPT !.disk = (f.disk \ stale) \cup {dest}, !.ledger = add.ledger]
  IN IF dest = NoPath THEN Outcome(f, Err(ErrUnknownType), FALSE, FALSE)
     ELSE IF add.threw THEN Thrown(f1, FALSE)
     ELSE Outcome(f1, Ok(id, id), FALSE, FALSE)

\* the try block of installDirectFile
InstallDirectFileBody(f, payload, filename, id, fault) ==
  LET dest == DestPath(filename)
      add == AddToInstalledGames(
               f.ledger, Game(id, id, <<[path |-> dest, type |-> FileType(filename)]>>), fault)
      f1 == [f EXCEPT !.disk = f.disk \cup {dest}, !.ledger = add.ledger]
      f2 == [f1 EXCEPT !.acf = DisableAutoUpdate(f.acf, id, fault)]
  IN IF dest = NoPath THEN Outcome(f, Err(ErrUnknownType), FALSE, FALSE)
     ELSE IF ~payload.exists \/ (fault.kind = "copy" /\ fault.dest = dest)
     THEN Thrown(f, FALSE)
     ELSE IF add.threw THEN Thrown(f1, FALSE)
     ELSE Outcome(f2, Ok(id, id), FALSE, FALSE)

\* installDirectFile: a downloaded file that is no archive
InstallDirectFile(f, payload, filename, id, fault) ==
  Catch(InstallDirectFileBody(f, payload, filename, id, fault), ErrInstall)

\* a removal that unlinks without existsSync and without a catch: a listed
\* file that is gone makes it throw before the ledger is written
RemoveStrict(f, id, fault) ==
  LET games == GetInstalledGames(f.ledger)
      found == {i \in 1..Len(games) : games[i].appId = id}
      game == games[CHOOSE i \in found : TRUE]
      listed == {game.files[i].path : i \in 1..Len(game.files)}
  IN IF found = {} THEN Outcome(f, Err(ErrNotInstalled), FALSE, FALSE)
     ELSE IF ~(listed \subseteq f.disk) THEN Thrown([f EXCEPT !.disk = f.disk \ listed], FALSE)
     ELSE Outcome([f EXCEPT !.disk = f.disk \ listed,
                            !.ledger = LedgerOf(FilterOut(games, id)),
                            !.extractDir[id] = {}],
                  [success |-> TRUE, appId |-> "", name |-> "", error |-> ""], FALSE, FALSE)

\* a removal that does not look the record up first
RemoveUnchecked(f, id, fault) ==
  Outcome([f EXCEPT !.ledger = LedgerOf(FilterOut(GetInstalledGames(f.ledger), id)),
                    !.extractDir[id] = {}],
          [success |-> TRUE, appId |-> "", name |-> "", error |-> ""], FALSE, FALSE)

\* removeGame: delete the files the record lists, write the ledger without
\* the record, remove manifests/<id>. A failed unlink is caught per file; a
\* failed write is not caught.
RemoveGame(f, id, fault) ==
  LET games == GetInstalledGames(f.ledger)
      found == {i \in 1..Len(games) : games[i].appId = id}
      game == games[CHOOSE i \in found : \A j \in found : i <= j]
      listed == {game.files[i].path : i \in 1..Len(game.files)}
      f1 == [f EXCEPT !.disk = IF fault.kind = "unlink" THEN f.disk ELSE f.disk \ listed]
  IN IF ReadThrows(f.ledger) THEN Thrown(f, FALSE)
     ELSE IF found = {} THEN Outcome(f, Err(ErrNotInstalled), FALSE, FALSE)
     ELSE IF fault.kind = "write" THEN Thrown(f1, FALSE)
     ELSE IF fault.kind = "writeTorn" THEN Thrown([f1 EXCEPT !.ledger = TornLedger], FALSE)
     ELSE Outcome([f1 EXCEPT !.ledger = LedgerOf(FilterOut(games, id)),
                             !.extractDir[id] = {}],
                  [success |-> TRUE, appId |-> "", name |-> "", error |-> ""], FALSE, FALSE)

\* ------------------------------------------------ SpecInstall: operations

Idle == [op |-> "none", id |-> "", payload |-> NoFile, filename |-> DataZip,
         fault |-> NoFault, out |-> Outcome(<< >>, NoResult, FALSE, FALSE), before |-> << >>]

Done(op, id, payload, filename, fault, out) ==
  [op |-> op, id |-> id, payload |-> payload, filename |-> filename, fault |-> fault,
   out |-> [out EXCEPT !.fs = << >>], before |-> FS]

\* the state of a machine on which Steam holds an appmanifest for 570 and
\* none for 440, before anything was installed
InitFS ==
  /\ ledger = NoLedger
  /\ disk = {}
  /\ extractDir = [i \in Ids |-> {}]
  /\ acf = [i \in Ids |-> IF i = "570" THEN <<"{", "other", "{", "other", "}", "}">>
                                       ELSE NoAcf]

\* an entry of installedFiles
Listed(name) == [path |-> DestPath(name), type |-> FileType(name)]

\* spec.md section 8, scenario C: a machine on which earlier sessions
\* installed 570 (three files, app.vdf since deleted by hand), 440 and a
\* game no operation here names, and left the extracted branch of 570 in
\* the cache
EarlierFS ==
  LET other == "730"
      cs == [base |-> "cs", ext |-> ".manifest"]
  IN [ledger |->
        LedgerOf(<<Game("570", JsonNamed,
                        <<Listed(FooLua), Listed(BarManifest), Listed(AppVdf)>>),
                   Game("440", "440", <<Listed(UpperLua)>>),
                   Game(other, other, <<Listed(cs)>>)>>),
      disk |-> {DestPath(FooLua), DestPath(BarManifest), DestPath(UpperLua), DestPath(cs)},
      extractDir |-> [i \in Ids |-> IF i = "570" THEN HubPair ELSE {}],
      acf |-> [i \in Ids |-> IF i = "570" THEN <<"{", "AUB0", "{", "AUB2", "}", "}">>
                                          ELSE NoAcf]]

\* SpecInstall starts on a fresh machine or on that one
InitMachine ==
  \/ InitFS
  \/ /\ ledger = EarlierFS.ledger
     /\ disk = EarlierFS.disk
     /\ extractDir = EarlierFS.extractDir
     /\ acf = EarlierFS.acf

\* ---------------------------------------------- the call and its adapters

\* the ManifestHub request: where it stands (idle | request | redirect |
\* body | redirectBody | notfound | error | streamError | aborted | done) and
\* the status of the response whose body is piped to the file
At(where) == [at |-> where, status |-> 0]
Piping(where, status) == [at |-> where, status |-> status]

\* fs.createWriteStream(zipPath): ended once end() or close() was called,
\* finished once 'finish' was emitted (once, to the listeners registered by
\* then), data: what the file holds when it is read
NoStream == [open |-> FALSE, ended |-> FALSE, finished |-> FALSE,
             onFinish |-> FALSE, onError |-> FALSE, data |-> NoFile]
NewStream == [NoStream EXCEPT !.open = TRUE, !.data = EmptyFile]

\* the promise of an adapter invocation
Pending == [state |-> "pending", error |-> "", filename |-> DataZip, payload |-> NoFile]
NotStarted == [Pending EXCEPT !.state = "idle"]
Failed(msg) == [Pending EXCEPT !.state = "fail", !.error = msg]
Downloaded(filename, payload) ==
  [state |-> "ok", error |-> "", filename |-> filename, payload |-> payload]

\* an adapter invocation: phase of the automation (idle | loading |
\* automation | polling | waiting | stopped), timer: the coarse timeout is
\* armed, attempts: polls made, started: downloadStarted, item: the
\* download item (none | active | done), win: the window the invocation
\* created (none | open | closed), static: the class's downloadWindow holds
\* it, resolved: Manifestor's resolved flag, res: the promise
NoAdapter ==
  [phase |-> "idle", timer |-> FALSE, attempts |-> 0, started |-> FALSE, item |-> "none",
   win |-> "none", static |-> FALSE, resolved |-> FALSE, res |-> NotStarted]

\* an invocation of SpecAdapters: a: the invocation, closedBy: the invocation
\* whose cleanup() closed its window (0: nobody's, or the user), exit: the
\* path that settled its promise
NoInvocation == [a |-> NoAdapter, closedBy |-> 0, exit |-> "none"]

NoInvocations == adapter = "Kernelos" /\ inv = [i \in 1..MaxInvocations |-> NoInvocation]

\* nothing in flight in the other parts of the program
NoCall == [kind |-> "none", id |-> "", state |-> "idle", seen |-> NoLedger]
NoFlight ==
  [calls |-> [k \in 1..MaxFlights |-> NoCall], log |-> << >>, overlapped |-> FALSE]
FixResult(success, error) == [success |-> success, error |-> error]
NoFixResult == FixResult(FALSE, "(pending)")
NoFix ==
  [phase |-> "idle", ext |-> ".rar", unrar |-> FALSE, sz |-> FALSE, sz86 |-> FALSE,
   firstScan |-> "none", links |-> "none", upFix |-> 0, reloads |-> 0,
   archive |-> "absent", altSawArchive |-> "none", res |-> NoFixResult]
NoButton == [mode |-> "none", target |-> "", disabled |-> FALSE]
NoUi ==
  [shown |-> "", button |-> NoButton, library |-> {}, searches |-> {}, updates |-> {},
   downloads |-> {}, removals |-> {}, overlap |-> FALSE]
NoTools ==
  [phase |-> "idle", file |-> "absent", res |-> NoFixResult, opened |-> "none",
   redirects |-> 0, calls |-> 0, quit |-> FALSE, silent |-> FALSE]
NoAux == flight = NoFlight /\ fix = NoFix /\ ui = NoUi /\ tools = NoTools

InitCall ==
  /\ calls = 0 /\ removes = 0
  /\ pc = "idle" /\ appId = "" /\ result = NoResult /\ settle = "pending"
  /\ unhandled = FALSE /\ tried = << >>
  /\ hub = At("idle") /\ file = NoStream /\ kernelos = NoAdapter /\ manifestor = NoAdapter

InitInstall == InitMachine /\ InitCall /\ NoInvocations /\ NoAux /\ last = Idle /\ ops = 0

Apply(out) ==
  /\ ledger' = out.fs.ledger
  /\ disk' = out.fs.disk
  /\ extractDir' = out.fs.extractDir
  /\ acf' = out.fs.acf

InstallHub ==
  /\ last.op = "none" /\ ops < MaxOps
  /\ \E id \in Ids, p \in Payloads, fault \in ArchiveFaults :
      LET out == ExtractAndInstall(FS, p, id, fault)
      IN /\ Apply(out)
         /\ last' = Done("extractAndInstall", id, p, DataZip, fault, out)
         /\ ops' = ops + 1
         /\ UNCHANGED <<callVars, adapter, inv, auxVars>>

InstallKernelos ==
  /\ last.op = "none" /\ ops < MaxOps
  /\ \E id \in Ids, p \in Payloads, fault \in ArchiveFaults \ {Fault("unlink", NoPath)} :
      LET out == ExtractAndInstallKernelos(FS, p, id, fault)
      IN /\ Apply(out)
         /\ last' = Done("extractAndInstallKernelos", id, p, DataZip, fault, out)
         /\ ops' = ops + 1
         /\ UNCHANGED <<callVars, adapter, inv, auxVars>>

InstallDirect ==
  /\ last.op = "none" /\ ops < MaxOps
  /\ \E id \in Ids, name \in DirectNames, p \in {NoFile, HtmlPage}, fault \in DirectFaults :
      LET out == InstallDirectFile(FS, p, name, id, fault)
      IN /\ ~p.exists => fault = NoFault
         /\ Apply(out)
         /\ last' = Done("installDirectFile", id, p, name, fault, out)
         /\ ops' = ops + 1
         /\ UNCHANGED <<callVars, adapter, inv, auxVars>>

Remove ==
  /\ last.op = "none" /\ ops < MaxOps
  /\ \E id \in Ids, fault \in RemoveFaults :
      LET out == RemoveGame(FS, id, fault)
      IN /\ Apply(out)
         /\ last' = Done("removeGame", id, NoFile, DataZip, fault, out)
         /\ ops' = ops + 1
         /\ UNCHANGED <<callVars, adapter, inv, auxVars>>

\* the caller has the result; the next operation may start
Return ==
  /\ last.op # "none" /\ ops < MaxOps
  /\ last' = Idle
  /\ UNCHANGED <<fsVars, ops, callVars, adapter, inv, auxVars>>

vars == <<ledger, disk, extractDir, acf, last, ops, calls, removes, pc, appId, result,
          settle, unhandled, tried, hub, file, kernelos, manifestor,
          adapter, inv, auxVars>>

NextInstall == InstallHub \/ InstallKernelos \/ InstallDirect \/ Remove \/ Return

SpecInstall == InitInstall /\ [][NextInstall]_vars

\* ------------------------------------------------- Spec: downloadManifest

\* what a server sends in Spec: a page that is no archive, a ManifestHub
\* branch, an archive with nothing to install
OrchPayloads ==
  {HtmlPage, Payload(TRUE, TRUE, HubPair), Payload(TRUE, TRUE, {File(RootDir, ReadmeTxt, NoContent)})}

\* what an automation site delivers: an archive of any content, or a plain
\* .lua file
Downloads == {<<DataZip, p>> : p \in OrchPayloads} \cup {<<FooLua, HtmlPage>>}

\* the I/O failures an install step of Spec meets
OrchFaults == {NoFault, CopyFault} \cup {Fault(kind, NoPath) : kind \in {"extract", "write", "hook"}}

\* err.message of an exception of the automation
ExcMessages == {"", "Script failed to execute"}

ErrNetwork == "ECONNRESET"
ErrStream == "ENOSPC"
ErrTimeout == "Timeout: Download took too long"
ErrDownload == "Download failed"
ErrLoadKernelos == "Failed to load Kernelos"
ErrLoadManifestor == "Failed to load Manifestor"
ErrClosed == "Window closed by user"

\* ManifestService.init: a directory that cannot be created is logged
ManifestInit(mkdirFails) == "ok"

\* resolve(r) of the promise downloadManifest returned
Resolve(r) ==
  /\ result' = IF settle = "pending" THEN r ELSE result
  /\ settle' = IF settle = "pending" THEN "fulfilled" ELSE settle
  /\ pc' = "settled"

\* promise.then(resolve) on an installer's promise: a rejection has no
\* handler and leaves the call pending
ThenResolve(out) ==
  IF out.threw
  THEN /\ unhandled' = TRUE
       /\ UNCHANGED <<result, settle, pc>>
  ELSE /\ Resolve(out.res)
       /\ UNCHANGED unhandled

\* an invocation with no callback left to run
Quiescent(a) ==
  /\ ~a.timer
  /\ a.item # "active"
  /\ \/ a.phase \in {"idle", "stopped"}
     \/ a.phase = "waiting" /\ a.win # "open"

StartCall ==
  \E id \in Ids, mkdirFails \in BOOLEAN :
    /\ pc \in {"idle", "settled"} /\ calls < MaxCalls
    /\ Quiescent(kernelos) /\ Quiescent(manifestor)
    /\ calls' = calls + 1
    /\ appId' = id /\ result' = NoResult /\ unhandled' = FALSE
    /\ last' = Idle
    /\ kernelos' = NoAdapter /\ manifestor' = NoAdapter
    /\ IF ManifestInit(mkdirFails) = "ok"
       THEN /\ pc' = "hub" /\ settle' = "pending"
            /\ tried' = <<"ManifestHub">>
            /\ hub' = At("request") /\ file' = NewStream
       ELSE /\ pc' = "settled" /\ settle' = "rejected"
            /\ tried' = << >>
            /\ hub' = At("idle") /\ file' = NoStream
    /\ UNCHANGED <<fsVars, ops, adapter, inv, auxVars, removes>>

\* tryKernelosFallback(appId, extractPath) is called
FallBackToKernelos ==
  /\ pc' = "kernelosImport"
  /\ tried' = Append(tried, "Kernelos")

\* https.get(url).on('error'): the failure goes to the caller
HubError ==
  /\ pc = "hub" /\ hub.at = "request"
  /\ hub' = At("error")
  /\ Resolve(Err(ErrNetwork))
  /\ UNCHANGED <<fsVars, last, ops, adapter, inv, auxVars, calls, removes, appId, unhandled, tried, file, kernelos, manifestor>>

\* a 301 or 302 with a Location header: the stream is closed, the target
\* is requested
HubRedirect ==
  /\ pc = "hub" /\ hub.at = "request"
  /\ hub' = At("redirect")
  /\ file' = [file EXCEPT !.ended = TRUE]
  /\ UNCHANGED <<fsVars, last, ops, adapter, inv, auxVars, calls, removes, pc, appId, result, settle, unhandled,
                 tried, kernelos, manifestor>>

\* a 404 reported to the caller as the call's result, without a fallback
HubNotFoundReported ==
  /\ pc = "hub" /\ hub.at = "request"
  /\ hub' = At("notfound")
  /\ file' = [file EXCEPT !.ended = TRUE, !.finished = TRUE]
  /\ Resolve(Err(ErrNotFound))
  /\ UNCHANGED <<fsVars, last, ops, adapter, inv, auxVars, calls, removes, appId, unhandled, tried, kernelos,
                 manifestor>>

\* a 404: the stream is closed (nothing listens to its 'finish'), zipPath
\* unlinked, Kernelos is tried
HubNotFound ==
  /\ pc = "hub" /\ hub.at = "request"
  /\ hub' = At("notfound")
  /\ file' = [file EXCEPT !.ended = TRUE, !.finished = TRUE]
  /\ FallBackToKernelos
  /\ UNCHANGED <<fsVars, last, ops, adapter, inv, auxVars, calls, removes, appId, result, settle, unhandled, kernelos, manifestor>>

\* any other status (2xx, a 301 or 302 without Location, 5xx, ...): the body
\* is piped to the stream, 'finish' and 'error' get their listeners
HubBody ==
  \E status \in {200, 302, 500} :
    /\ pc = "hub" /\ hub.at = "request"
    /\ hub' = Piping("body", status)
    /\ file' = [file EXCEPT !.onFinish = TRUE, !.onError = TRUE]
    /\ UNCHANGED <<fsVars, last, ops, adapter, inv, auxVars, calls, removes, pc, appId, result, settle, unhandled,
                   tried, kernelos, manifestor>>

\* https.get(redirectUrl).on('error')
RedirectError ==
  /\ pc = "hub" /\ hub.at = "redirect"
  /\ hub' = At("error")
  /\ Resolve(Err(ErrNetwork))
  /\ UNCHANGED <<fsVars, last, ops, adapter, inv, auxVars, calls, removes, appId, unhandled, tried, file, kernelos, manifestor>>

\* the redirect target answers 404: Kernelos is tried, and nothing will
\* listen to the closed stream's 'finish'
RedirectNotFound ==
  /\ pc = "hub" /\ hub.at = "redirect"
  /\ hub' = At("notfound")
  /\ file' = [file EXCEPT !.finished = TRUE]
  /\ FallBackToKernelos
  /\ UNCHANGED <<fsVars, last, ops, adapter, inv, auxVars, calls, removes, appId, result, settle, unhandled, kernelos, manifestor>>

\* the redirect target answers anything else: its body is piped to the
\* stream that was closed, and 'finish' gets its listener now; what is
\* written to an ended stream does not reach the file
RedirectBody ==
  \E status \in {200, 302, 500} :
    /\ pc = "hub" /\ hub.at = "redirect"
    /\ hub' = Piping("redirectBody", status)
    /\ file' = [file EXCEPT !.onFinish = TRUE]
    /\ UNCHANGED <<fsVars, last, ops, adapter, inv, auxVars, calls, removes, pc, appId, result, settle, unhandled,
                   tried, kernelos, manifestor>>

\* the response ends: pipe ends the stream, the file holds the body
BodyEnd ==
  \E p \in OrchPayloads :
    /\ hub.at = "body" /\ ~file.ended
    /\ file' = [file EXCEPT !.ended = TRUE, !.data = p]
    /\ UNCHANGED <<fsVars, last, ops, adapter, inv, auxVars, calls, removes, pc, appId, result, settle, unhandled,
                   tried, hub, kernelos, manifestor>>

\* the connection is lost before the body is complete: the response emits
\* 'aborted', pipe does not end the stream
BodyAborted ==
  /\ hub.at = "body" /\ ~file.ended
  /\ hub' = [hub EXCEPT !.at = "aborted"]
  /\ UNCHANGED <<fsVars, last, ops, adapter, inv, auxVars, calls, removes, pc, appId, result, settle, unhandled,
                 tried, file, kernelos, manifestor>>

\* file.on('error'): zipPath is unlinked, the failure goes to the caller
FileError ==
  /\ hub.at = "body" /\ file.onError /\ ~file.finished
  /\ hub' = [hub EXCEPT !.at = "streamError"]
  /\ file' = [file EXCEPT !.ended = TRUE, !.finished = TRUE, !.data = NoFile]
  /\ Resolve(Err(ErrStream))
  /\ UNCHANGED <<fsVars, last, ops, adapter, inv, auxVars, calls, removes, appId, unhandled, tried, kernelos, manifestor>>

\* the stream emits 'finish' and nobody listens (yet)
FileFinishUnheard ==
  /\ file.ended /\ ~file.finished /\ ~file.onFinish
  /\ file' = [file EXCEPT !.finished = TRUE]
  /\ UNCHANGED <<fsVars, last, ops, adapter, inv, auxVars, calls, removes, pc, appId, result, settle, unhandled,
                 tried, hub, kernelos, manifestor>>

\* file.on('finish'): extractAndInstall(zipPath, extractPath, appId).then(resolve)
FileFinish ==
  \E fault \in OrchFaults :
    LET out == ExtractAndInstall(FS, file.data, appId, fault)
    IN /\ file.ended /\ ~file.finished /\ file.onFinish
       /\ file' = [file EXCEPT !.finished = TRUE]
       /\ hub' = [hub EXCEPT !.at = "done"]
       /\ Apply(out)
       /\ last' = Done("extractAndInstall", appId, file.data, DataZip, fault, out)
       /\ ThenResolve(out)
       /\ UNCHANGED <<ops, adapter, inv, auxVars, calls, removes, appId, tried, kernelos, manifestor>>

\* --------------------------------------------------- KernelosService

\* a fresh invocation of an adapter: window created and held by the static
\* field, coarse timeout armed, loadURL under way
Started ==
  [NoAdapter EXCEPT !.phase = "loading", !.timer = TRUE, !.win = "open", !.static = TRUE,
                    !.res = Pending]

\* cleanup(): close the window the static field holds, clear the field
Cleanup(a) == IF a.static THEN [a EXCEPT !.win = "closed", !.static = FALSE] ELSE a

ClearTimeout(a) == [a EXCEPT !.timer = FALSE]

\* resolve(r) of the adapter's promise: the first one counts
Settle(a, r) == IF a.res.state = "pending" THEN [a EXCEPT !.res = r] ELSE a

\* clearTimeout(timeoutId); this.cleanup(); resolve(r)
Finish(a, r) == Settle(Cleanup(ClearTimeout(a)), r)

\* the value of an adapter's promise once the continuation that awaited it
\* has read it
Taken(res) == [res EXCEPT !.error = "", !.filename = DataZip, !.payload = NoFile]

\* a continuation that does not wait for the promise
NotAwaited(res) == TRUE

\* the orchestrator's await on an adapter's promise
Awaited(res) == res.state \in {"ok", "fail"}

exceptKernelos ==
  <<fsVars, last, ops, adapter, inv, auxVars, calls, removes, pc, appId, result, settle, unhandled, tried, hub,
    file, manifestor>>

\* tryManifestorFallback(appId, extractPath) is called
FallBackToManifestor ==
  /\ pc' = "manifestorImport"
  /\ tried' = Append(tried, "Manifestor")

\* import('./KernelosService') and downloadFromKernelos up to the promise
KStart ==
  /\ pc = "kernelosImport"
  /\ pc' = "kernelos"
  /\ kernelos' = Started
  /\ UNCHANGED <<fsVars, last, ops, adapter, inv, auxVars, calls, removes, appId, result, settle, unhandled, tried,
                 hub, file, manifestor>>

\* the import, init's mkdirSync or the window's construction throws: the
\* catch of tryKernelosFallback goes on to Manifestor
KStartThrows ==
  /\ pc = "kernelosImport"
  /\ kernelos' = [kernelos EXCEPT !.res = Failed("")]
  /\ FallBackToManifestor
  /\ UNCHANGED <<fsVars, last, ops, adapter, inv, auxVars, calls, removes, appId, result, settle, unhandled, hub,
                 file, manifestor>>

\* the coarse timeout fires
KTimeout ==
  /\ kernelos.timer
  /\ kernelos' = Settle(Cleanup(ClearTimeout(kernelos)), Failed(ErrTimeout))
  /\ UNCHANGED exceptKernelos

\* loadURL fulfils
KLoaded ==
  /\ kernelos.phase = "loading" /\ kernelos.win = "open"
  /\ kernelos' = [kernelos EXCEPT !.phase = "automation"]
  /\ UNCHANGED exceptKernelos

\* loadURL rejects
KLoadFailed ==
  /\ kernelos.phase = "loading"
  /\ kernelos' = [Finish(kernelos, Failed(ErrLoadKernelos)) EXCEPT !.phase = "stopped"]
  /\ UNCHANGED exceptKernelos

\* the id is entered, 'Get link' clicked, the delays pass: polling starts
KAutomation ==
  /\ kernelos.phase = "automation" /\ kernelos.win = "open"
  /\ kernelos' = [kernelos EXCEPT !.phase = "polling"]
  /\ UNCHANGED exceptKernelos

\* a script of the automation throws
KAutomationThrows ==
  \E msg \in ExcMessages :
    /\ kernelos.phase = "automation"
    /\ kernelos' = [Finish(kernelos, Failed(msg)) EXCEPT !.phase = "stopped"]
    /\ UNCHANGED exceptKernelos

\* checkForDownloadButton when a download has started: the poll ends
KPollStarted ==
  /\ kernelos.phase = "polling" /\ kernelos.started
  /\ kernelos' = [kernelos EXCEPT !.phase = "stopped"]
  /\ UNCHANGED exceptKernelos

\* checkForDownloadButton past maxAttempts
KPollExhausted ==
  /\ kernelos.phase = "polling" /\ ~kernelos.started
  /\ kernelos.attempts + 1 > KernelosMaxAttempts
  /\ kernelos' = [Finish(kernelos, Failed(ErrNotFound)) EXCEPT
                    !.phase = "stopped", !.attempts = kernelos.attempts + 1]
  /\ UNCHANGED exceptKernelos

\* checkForDownloadButton: no button and no marker, or a script throws (as
\* it does once the window is gone): the next poll is scheduled
KPollAgain ==
  /\ kernelos.phase = "polling" /\ ~kernelos.started
  /\ kernelos.attempts + 1 <= KernelosMaxAttempts
  /\ kernelos' = [kernelos EXCEPT !.attempts = kernelos.attempts + 1]
  /\ UNCHANGED exceptKernelos

\* checkForDownloadButton finds the button and clicks it: no further poll
\* is scheduled
KPollClick ==
  /\ kernelos.phase = "polling" /\ ~kernelos.started /\ kernelos.win = "open"
  /\ kernelos.attempts + 1 <= KernelosMaxAttempts
  /\ kernelos' = [kernelos EXCEPT !.attempts = kernelos.attempts + 1, !.phase = "waiting"]
  /\ UNCHANGED exceptKernelos

\* checkForDownloadButton reads 'Not found or error.' on the page
KPollMarker ==
  /\ kernelos.phase = "polling" /\ ~kernelos.started /\ kernelos.win = "open"
  /\ kernelos.attempts + 1 <= KernelosMaxAttempts
  /\ kernelos' = [Finish(kernelos, Failed(ErrNotFound)) EXCEPT
                    !.phase = "stopped", !.attempts = kernelos.attempts + 1]
  /\ UNCHANGED exceptKernelos

\* ses.on('will-download'): the page starts a download, after the click on
\* the download button or, during the polls, after the one on 'Get link'
KWillDownload ==
  /\ kernelos.win = "open" /\ kernelos.phase \in {"polling", "waiting"}
  /\ kernelos.item = "none"
  /\ kernelos' = [kernelos EXCEPT !.started = TRUE, !.item = "active"]
  /\ UNCHANGED exceptKernelos

\* item.on('done') with state 'completed'
KItemCompleted ==
  \E d \in Downloads :
    /\ kernelos.item = "active"
    /\ kernelos' = [Finish(kernelos, Downloaded(d[1], d[2])) EXCEPT !.item = "done"]
    /\ UNCHANGED exceptKernelos

\* item.on('done') with state 'cancelled' or 'interrupted'
KItemFailed ==
  /\ kernelos.item = "active"
  /\ kernelos' = [Finish(kernelos, Failed(ErrDownload)) EXCEPT !.item = "done"]
  /\ UNCHANGED exceptKernelos

\* the promise of downloadFromKernelos settled with a download:
\* installDirectFile by the file name's extension, else
\* extractAndInstallKernelos
InstallDownloaded(f, res, id, fault) ==
  IF ExtName(res.filename) \in {".lua", ".manifest", ".vdf"}
  THEN InstallDirectFile(f, res.payload, res.filename, id, fault)
  ELSE ExtractAndInstallKernelos(f, res.payload, id, fault)

InstallerOf(filename) ==
  IF ExtName(filename) \in {".lua", ".manifest", ".vdf"}
  THEN "installDirectFile" ELSE "extractAndInstallKernelos"

KernelosInstall ==
  \E fault \in OrchFaults :
    LET res == kernelos.res
        out == InstallDownloaded(FS, res, appId, fault)
    IN /\ pc = "kernelos" /\ Awaited(res) /\ res.state = "ok"
       /\ Apply(out)
       /\ last' = Done(InstallerOf(res.filename), appId, res.payload, res.filename, fault, out)
       /\ ThenResolve(out)
       /\ kernelos' = [kernelos EXCEPT !.res = Taken(res)]
       /\ UNCHANGED <<ops, adapter, inv, auxVars, calls, removes, appId, tried, hub, file, manifestor>>

\* a continuation that goes on to Manifestor without looking at
\* result.success
KernelosFallsBack ==
  /\ pc = "kernelos" /\ Awaited(kernelos.res)
  /\ FallBackToManifestor
  /\ kernelos' = [kernelos EXCEPT !.res = Taken(kernelos.res)]
  /\ UNCHANGED <<fsVars, last, ops, adapter, inv, auxVars, calls, removes, appId, result, settle, unhandled, hub,
                 file, manifestor>>

\* the promise of downloadFromKernelos settled with a failure
KernelosFailed ==
  /\ pc = "kernelos" /\ Awaited(kernelos.res) /\ kernelos.res.state # "ok"
  /\ FallBackToManifestor
  /\ kernelos' = [kernelos EXCEPT !.res = Taken(kernelos.res)]
  /\ UNCHANGED <<fsVars, last, ops, adapter, inv, auxVars, calls, removes, appId, result, settle, unhandled, hub,
                 file, manifestor>>

\* ------------------------------------------------- ManifestorService

exceptManifestor ==
  <<fsVars, last, ops, adapter, inv, auxVars, calls, removes, pc, appId, result, settle, unhandled, tried, hub,
    file, kernelos>>

\* if (resolved) return; resolved = true; then what the callback does
Once(a, b) == IF a.resolved THEN a ELSE [b EXCEPT !.resolved = TRUE]

\* import('./ManifestorService') and downloadFromManifestor up to the promise
MStart ==
  /\ pc = "manifestorImport"
  /\ pc' = "manifestor"
  /\ manifestor' = Started
  /\ UNCHANGED <<fsVars, last, ops, adapter, inv, auxVars, calls, removes, appId, result, settle, unhandled, tried,
                 hub, file, kernelos>>

\* the import, init's mkdirSync or the window's construction throws: the
\* catch of tryManifestorFallback
MStartThrows ==
  /\ pc = "manifestorImport"
  /\ manifestor' = [manifestor EXCEPT !.res = Failed("")]
  /\ Resolve(Err(ErrNotFound))
  /\ UNCHANGED <<fsVars, last, ops, adapter, inv, auxVars, calls, removes, appId, unhandled, tried, hub, file,
                 kernelos>>

\* win.on('closed') after the user closed the window
MWindowClosed ==
  /\ manifestor.win = "open"
  /\ manifestor' =
       Once([manifestor EXCEPT !.win = "closed"],
            Settle(ClearTimeout([manifestor EXCEPT !.win = "closed"]), Failed(ErrClosed)))
  /\ UNCHANGED exceptManifestor

\* the coarse timeout fires
MTimeout ==
  /\ manifestor.timer
  /\ manifestor' =
       Once(ClearTimeout(manifestor),
            Settle(Cleanup(ClearTimeout(manifestor)), Failed(ErrNotFound)))
  /\ UNCHANGED exceptManifestor

\* loadURL fulfils
MLoaded ==
  /\ manifestor.phase = "loading" /\ manifestor.win = "open"
  /\ manifestor' = [manifestor EXCEPT !.phase = "automation"]
  /\ UNCHANGED exceptManifestor

\* loadURL rejects
MLoadFailed ==
  /\ manifestor.phase = "loading"
  /\ manifestor' =
       [Once(manifestor, Finish(manifestor, Failed(ErrLoadManifestor))) EXCEPT
          !.phase = "stopped"]
  /\ UNCHANGED exceptManifestor

\* the id is entered, the delays pass: polling starts
MAutomation ==
  /\ manifestor.phase = "automation" /\ manifestor.win = "open"
  /\ manifestor' = [manifestor EXCEPT !.phase = "polling"]
  /\ UNCHANGED exceptManifestor

\* a script of the automation throws
MAutomationThrows ==
  \E msg \in ExcMessages :
    /\ manifestor.phase = "automation"
    /\ manifestor' =
         [Once(manifestor, Finish(manifestor, Failed(msg))) EXCEPT !.phase = "stopped"]
    /\ UNCHANGED exceptManifestor

\* checkForEnabledButton when the promise is resolved or a download started
MPollStopped ==
  /\ manifestor.phase = "polling" /\ (manifestor.resolved \/ manifestor.started)
  /\ manifestor' = [manifestor EXCEPT !.phase = "stopped"]
  /\ UNCHANGED exceptManifestor

\* checkForEnabledButton past maxAttempts
MPollExhausted ==
  /\ manifestor.phase = "polling" /\ ~(manifestor.resolved \/ manifestor.started)
  /\ manifestor.attempts + 1 > ManifestorMaxAttempts
  /\ manifestor' =
       [Once(manifestor, Finish(manifestor, Failed(ErrNotFound))) EXCEPT
          !.phase = "stopped", !.attempts = manifestor.attempts + 1]
  /\ UNCHANGED exceptManifestor

\* checkForEnabledButton: the button is not enabled, or a script throws
MPollAgain ==
  /\ manifestor.phase = "polling" /\ ~(manifestor.resolved \/ manifestor.started)
  /\ manifestor.attempts + 1 <= ManifestorMaxAttempts
  /\ manifestor' = [manifestor EXCEPT !.attempts = manifestor.attempts + 1]
  /\ UNCHANGED exceptManifestor

\* checkForEnabledButton finds the button enabled and clicks it
MPollClick ==
  /\ manifestor.phase = "polling" /\ ~(manifestor.resolved \/ manifestor.started)
  /\ manifestor.win = "open"
  /\ manifestor.attempts + 1 <= ManifestorMaxAttempts
  /\ manifestor' =
       [manifestor EXCEPT !.attempts = manifestor.attempts + 1, !.phase = "waiting"]
  /\ UNCHANGED exceptManifestor

\* ses.on('will-download'): the page starts a download
MWillDownload ==
  /\ manifestor.win = "open" /\ manifestor.phase \in {"polling", "waiting"}
  /\ manifestor.item = "none"
  /\ manifestor' = [manifestor EXCEPT !.started = TRUE, !.item = "active"]
  /\ UNCHANGED exceptManifestor

\* item.on('done') with state 'completed'
MItemCompleted ==
  \E d \in Downloads :
    /\ manifestor.item = "active"
    /\ manifestor' =
         [Once(manifestor, Finish(manifestor, Downloaded(d[1], d[2]))) EXCEPT
            !.item = "done"]
    /\ UNCHANGED exceptManifestor

\* item.on('done') with state 'cancelled' or 'interrupted'
MItemFailed ==
  /\ manifestor.item = "active"
  /\ manifestor' =
       [Once(manifestor, Finish(manifestor, Failed(ErrDownload))) EXCEPT !.item = "done"]
  /\ UNCHANGED exceptManifestor

\* the message passed on as it is
OrNothing(msg, default) == msg

\* result.error || `No manifest found for App ID: ${appId}`
OrElse(msg, default) == IF msg = "" THEN default ELSE msg

ManifestorInstall ==
  \E fault \in OrchFaults :
    LET res == manifestor.res
        out == InstallDownloaded(FS, res, appId, fault)
    IN /\ pc = "manifestor" /\ Awaited(res) /\ res.state = "ok"
       /\ Apply(out)
       /\ last' = Done(InstallerOf(res.filename), appId, res.payload, res.filename, fault, out)
       /\ ThenResolve(out)
       /\ manifestor' = [manifestor EXCEPT !.res = Taken(res)]
       /\ UNCHANGED <<ops, adapter, inv, auxVars, calls, removes, appId, tried, hub, file, kernelos>>

\* the promise of downloadFromManifestor settled with a failure
ManifestorFailed ==
  /\ pc = "manifestor" /\ Awaited(manifestor.res) /\ manifestor.res.state # "ok"
  /\ Resolve(Err(OrElse(manifestor.res.error, ErrNotFound)))
  /\ UNCHANGED <<fsVars, last, ops, adapter, inv, auxVars, calls, removes, appId, unhandled, tried, hub, file,
                 kernelos, manifestor>>

\* ------------------------------------------------------------ removeGame

\* the 'remove-game' handler; it touches nothing a callback other than an
\* install step reads, so it is taken between calls, when no callback is
\* left
RemoveGameCall ==
  \E id \in Ids, fault \in RemoveFaults :
    LET out == RemoveGame(FS, id, fault)
    IN /\ removes < MaxRemoves
       /\ pc \in {"idle", "settled"}
       /\ Quiescent(kernelos) /\ Quiescent(manifestor)
       /\ removes' = removes + 1
       /\ Apply(out)
       /\ UNCHANGED <<last, ops, adapter, inv, auxVars, calls, pc, appId, result, settle, unhandled, tried, hub,
                      file, kernelos, manifestor>>

Init == InitFS /\ InitCall /\ NoInvocations /\ NoAux /\ last = Idle /\ ops = 0

\* the callbacks of a call in flight
Callback ==
  \/ HubError \/ HubRedirect \/ HubNotFound \/ HubBody
  \/ RedirectError \/ RedirectNotFound \/ RedirectBody
  \/ BodyEnd \/ BodyAborted \/ FileError \/ FileFinishUnheard \/ FileFinish
  \/ KStart \/ KStartThrows \/ KTimeout \/ KLoaded \/ KLoadFailed
  \/ KAutomation \/ KAutomationThrows
  \/ KPollStarted \/ KPollExhausted \/ KPollAgain \/ KPollClick \/ KPollMarker
  \/ KWillDownload \/ KItemCompleted \/ KItemFailed
  \/ KernelosInstall \/ KernelosFailed
  \/ MStart \/ MStartThrows \/ MWindowClosed \/ MTimeout \/ MLoaded \/ MLoadFailed
  \/ MAutomation \/ MAutomationThrows
  \/ MPollStopped \/ MPollExhausted \/ MPollAgain \/ MPollClick
  \/ MWillDownload \/ MItemCompleted \/ MItemFailed
  \/ ManifestorInstall \/ ManifestorFailed

Next == StartCall \/ Callback \/ RemoveGameCall

Spec == Init /\ [][Next]_vars

\* ------------------------- SpecAdapters: the invocations of one adapter

\* the three classes that drive a BrowserWindow
Adapters == {"Kernelos", "Manifestor", "OnlineFix"}

\* the callbacks of the class test a `resolved` flag (KernelosService has
\* none)
Guarded == adapter # "Kernelos"

\* the class polls for a button (OnlineFixDownloadService follows links)
Polls == adapter # "OnlineFix"

MaxAttempts ==
  IF adapter = "Kernelos" THEN KernelosMaxAttempts ELSE ManifestorMaxAttempts

\* what the coarse timeout resolves with
TimeoutError ==
  CASE adapter = "Kernelos" -> ErrTimeout
    [] adapter = "Manifestor" -> ErrNotFound
    [] OTHER -> "Download timeout"

\* what a rejected loadURL resolves with
LoadError ==
  CASE adapter = "Kernelos" -> ErrLoadKernelos
    [] adapter = "Manifestor" -> ErrLoadManifestor
    [] OTHER -> "Failed to load page"

\* a cleanup() that leaves the window alone
NoCleanupBy(v, i) == v

\* this.cleanup() in a callback of invocation i: the window the class's
\* static downloadWindow holds is closed, whichever invocation created it
CleanupBy(v, i) ==
  [j \in DOMAIN v |->
     IF v[j].a.static THEN [v[j] EXCEPT !.a = Cleanup(@), !.closedBy = i] ELSE v[j]]

\* resolve(r) in a callback of invocation i, reached by way of path
ResolveBy(v, i, r, path) ==
  IF v[i].a.res.state = "pending"
  THEN [v EXCEPT ![i].a = Settle(@, r), ![i].exit = path]
  ELSE v

\* [if (resolved) return; resolved = true;] clearTimeout(timeoutId);
\* this.cleanup(); resolve(r)
Handler(v, i, r, path) ==
  IF Guarded /\ v[i].a.resolved THEN v
  ELSE LET w == [v EXCEPT ![i].a = [ClearTimeout(@) EXCEPT !.resolved = Guarded]]
       IN ResolveBy(CleanupBy(w, i), i, r, path)

exceptInv == <<fsVars, last, ops, callVars, adapter, auxVars>>

\* downloadFrom...(appId) / downloadOnlineFix(...) is called once the promise
\* of the invocation before it has settled: the window is created and
\* stored in the static field; Kernelos and Manifestor register the
\* 'will-download' listener, arm the timeout and call loadURL, online-fix
\* first awaits loadCookies
Start(i) ==
  /\ inv[i].a.res.state = "idle"
  /\ \A j \in 1..(i - 1) : Awaited(inv[j].a.res)
  /\ inv' = [j \in DOMAIN inv |->
               IF j # i THEN [inv[j] EXCEPT !.a.static = FALSE]
               ELSE [inv[j] EXCEPT !.a = IF adapter = "OnlineFix"
                                          THEN [Started EXCEPT !.phase = "cookies",
                                                               !.timer = FALSE]
                                          ELSE Started]]
  /\ UNCHANGED exceptInv

\* online-fix: loadCookies returned; the timeout is armed, the listener
\* registered, loadURL called
CookiesLoaded(i) ==
  /\ inv[i].a.phase = "cookies"
  /\ inv' = [inv EXCEPT ![i].a.phase = "loading", ![i].a.timer = TRUE]
  /\ UNCHANGED exceptInv

\* the coarse timeout of invocation i fires
Timeout(i) ==
  /\ inv[i].a.timer
  /\ inv' = Handler(inv, i, Failed(TimeoutError), "timeout")
  /\ UNCHANGED exceptInv

\* loadURL fulfils
Loaded(i) ==
  /\ inv[i].a.phase = "loading" /\ inv[i].a.win = "open"
  /\ inv' = [inv EXCEPT ![i].a.phase = "automation"]
  /\ UNCHANGED exceptInv

\* loadURL rejects
LoadFailed(i) ==
  /\ inv[i].a.phase = "loading"
  /\ inv' = [Handler(inv, i, Failed(LoadError), "load") EXCEPT ![i].a.phase = "stopped"]
  /\ UNCHANGED exceptInv

\* the scripts of the automation ran: the polls start (online-fix: the link
\* of the archive was clicked)
Automation(i) ==
  /\ inv[i].a.phase = "automation" /\ inv[i].a.win = "open"
  /\ inv' = [inv EXCEPT ![i].a.phase = IF Polls THEN "polling" ELSE "waiting"]
  /\ UNCHANGED exceptInv

\* a script of the automation throws, as it does once the window is gone
AutomationThrows(i) ==
  \E msg \in ExcMessages :
    /\ inv[i].a.phase = "automation"
    /\ inv' = [Handler(inv, i, Failed(msg), "exception") EXCEPT ![i].a.phase = "stopped"]
    /\ UNCHANGED exceptInv

\* online-fix: the page has no link to the uploads server, or no archive
LinkNotFound(i) ==
  /\ adapter = "OnlineFix"
  /\ inv[i].a.phase = "automation" /\ inv[i].a.win = "open"
  /\ inv' = [Handler(inv, i, Failed("Fix download link not found"), "nolink") EXCEPT
               ![i].a.phase = "stopped"]
  /\ UNCHANGED exceptInv

\* the poll's first line lets it go on
PollGoesOn(a) == ~a.started /\ ~(Guarded /\ a.resolved)

\* if (downloadStarted) return / if (resolved || downloadStarted) return
PollStopped(i) ==
  /\ inv[i].a.phase = "polling" /\ ~PollGoesOn(inv[i].a)
  /\ inv' = [inv EXCEPT ![i].a.phase = "stopped"]
  /\ UNCHANGED exceptInv

\* a poll past maxAttempts that reports the timeout's message
PollExhaustedAsTimeout(i) ==
  /\ inv[i].a.phase = "polling" /\ PollGoesOn(inv[i].a)
  /\ inv[i].a.attempts + 1 > MaxAttempts
  /\ inv' = [Handler(inv, i, Failed(ErrTimeout), "exhausted") EXCEPT
               ![i].a.phase = "stopped", ![i].a.attempts = @ + 1]
  /\ UNCHANGED exceptInv

\* the poll past maxAttempts
PollExhausted(i) ==
  /\ inv[i].a.phase = "polling" /\ PollGoesOn(inv[i].a)
  /\ inv[i].a.attempts + 1 > MaxAttempts
  /\ inv' = [Handler(inv, i, Failed(ErrNotFound), "exhausted") EXCEPT
               ![i].a.phase = "stopped", ![i].a.attempts = @ + 1]
  /\ UNCHANGED exceptInv

\* the poll finds the button not ready, or its script throws (as it does
\* once the window is gone): the next poll is scheduled
PollAgain(i) ==
  /\ inv[i].a.phase = "polling" /\ PollGoesOn(inv[i].a)
  /\ inv[i].a.attempts + 1 <= MaxAttempts
  /\ inv' = [inv EXCEPT ![i].a.attempts = @ + 1]
  /\ UNCHANGED exceptInv

\* the poll finds the button ready and clicks it: no further poll
PollClick(i) ==
  /\ inv[i].a.phase = "polling" /\ PollGoesOn(inv[i].a) /\ inv[i].a.win = "open"
  /\ inv[i].a.attempts + 1 <= MaxAttempts
  /\ inv' = [inv EXCEPT ![i].a.attempts = @ + 1, ![i].a.phase = "waiting"]
  /\ UNCHANGED exceptInv

\* Kernelos: the poll reads 'Not found or error.' on the page
PollMarker(i) ==
  /\ adapter = "Kernelos"
  /\ inv[i].a.phase = "polling" /\ PollGoesOn(inv[i].a) /\ inv[i].a.win = "open"
  /\ inv[i].a.attempts + 1 <= MaxAttempts
  /\ inv' = [Handler(inv, i, Failed(ErrNotFound), "marker") EXCEPT
               ![i].a.phase = "stopped", ![i].a.attempts = @ + 1]
  /\ UNCHANGED exceptInv

\* the invocation has called ses.on('will-download', ...) on the session
\* its window shares with every other window; no listener is ever removed
Listening(a) == a.phase \notin {"idle", "cookies"}

\* the page in the window of invocation i starts a download: the session
\* emits 'will-download' to the listener of every invocation made so far,
\* and each gives the item a 'done' listener
WillDownload(i) ==
  /\ inv[i].a.win = "open" /\ inv[i].a.phase \in {"polling", "waiting"}
  /\ \A j \in DOMAIN inv : inv[j].a.item # "active"
  /\ inv' = [j \in DOMAIN inv |->
               IF Listening(inv[j].a)
               THEN [inv[j] EXCEPT !.a.started = TRUE, !.a.item = "active"]
               ELSE inv[j]]
  /\ UNCHANGED exceptInv

\* what 'done' brings: a file, or the state 'cancelled' / 'interrupted'
DoneResults == {Downloaded(FooLua, HtmlPage), Failed(ErrDownload)}

\* item.on('done') of invocation j; online-fix awaits its extractAndInstall
\* between clearTimeout and cleanup
DoneHandler(v, j, r) ==
  LET w == [v EXCEPT ![j].a.item = "done"]
  IN IF adapter = "OnlineFix" /\ r.state = "ok"
     THEN IF w[j].a.resolved THEN w
          ELSE [w EXCEPT ![j].a = [ClearTimeout(@) EXCEPT !.resolved = TRUE,
                                                           !.phase = "extracting"]]
     ELSE Handler(w, j, r, IF r.state = "ok" THEN "completed" ELSE "failed")

\* the 'done' listeners of the item, in the order they were added
RECURSIVE DoneFrom(_, _, _)
DoneFrom(v, j, r) ==
  IF j > MaxInvocations THEN v
  ELSE DoneFrom(IF v[j].a.item = "active" THEN DoneHandler(v, j, r) ELSE v, j + 1, r)

\* the download item emits 'done'
ItemDone ==
  \E r \in DoneResults :
    /\ \E j \in DOMAIN inv : inv[j].a.item = "active"
    /\ inv' = DoneFrom(inv, 1, r)
    /\ UNCHANGED exceptInv

\* online-fix: extractAndInstall(savePath, gamePath) settled; cleanup(),
\* resolve(installResult)
Extracted(i) ==
  \E r \in {Downloaded(DataZip, NoFile), Failed("Extraction failed")} :
    /\ inv[i].a.phase = "extracting"
    /\ inv' = [ResolveBy(CleanupBy(inv, i), i, r, "completed") EXCEPT
                 ![i].a.phase = "stopped"]
    /\ UNCHANGED exceptInv

\* Manifestor: win.on('closed') after the window was closed from outside
WindowClosed(i) ==
  /\ adapter = "Manifestor" /\ inv[i].a.win = "open"
  /\ inv' = [inv EXCEPT ![i].a =
               Once([@ EXCEPT !.win = "closed"],
                    Settle(ClearTimeout([@ EXCEPT !.win = "closed"]), Failed(ErrClosed))),
                        ![i].exit = IF inv[i].a.resolved THEN @ ELSE "closed"]
  /\ UNCHANGED exceptInv

InitAdapters ==
  /\ InitFS /\ InitCall /\ NoAux /\ last = Idle /\ ops = 0
  /\ adapter \in Adapters
  /\ inv = [i \in 1..MaxInvocations |-> NoInvocation]

NextAdapters ==
  \/ \E i \in 1..MaxInvocations :
       \/ Start(i) \/ CookiesLoaded(i) \/ Timeout(i)
       \/ Loaded(i) \/ LoadFailed(i) \/ Automation(i) \/ AutomationThrows(i)
       \/ LinkNotFound(i)
       \/ PollStopped(i) \/ PollExhausted(i) \/ PollAgain(i) \/ PollClick(i)
       \/ PollMarker(i)
       \/ WillDownload(i) \/ Extracted(i) \/ WindowClosed(i)
  \/ ItemDone

SpecAdapters == InitAdapters /\ [][NextAdapters]_vars

\* ------------------------------------------------------------ properties

\* ------------------------------- SpecOnlineFix: downloadOnlineFix

\* the extensions of the file the uploads server delivers
FixExts == {".rar", ".zip", ".7z", ".exe"}

ErrNoLink == "Fix download link not found"
ErrNoArchive == "Archive file not found. Check the website manually."
ErrUnsupported == "Unsupported archive format"
ErrAllMethods == "Extraction failed with all methods"
ErrNoExtractor == "7-Zip or WinRAR not found. Please install one of them."
ErrFixDownload == "Download failed"
ErrFixPage == "Failed to load page"

exceptFix == <<fsVars, last, ops, callVars, adapter, inv, flight, ui, tools>>

\* the call goes on to a phase; the up_fix requests and the reloads of the
\* uploads page that follow them are counted
Enter(f, phase) ==
  [f EXCEPT !.phase = phase,
            !.upFix = IF phase = "upFix" /\ @ < UpFixCap THEN @ + 1 ELSE @,
            !.reloads = IF phase = "reload" /\ @ < UpFixCap THEN @ + 1 ELSE @]

\* resolve(r) and nothing of the call left to run
FixDone(f, r) == [f EXCEPT !.phase = "done", !.res = r]

\* a retry that asks for up_fix again as long as the page shows no link
AfterRescanRetrying(links) == IF links = "zero" THEN "upFix" ELSE "search"

\* after the second scan the code goes on to the Fix Repair folder whatever
\* the scan found
AfterRescan(links) == "search"

\* downloadOnlineFix with a game path: window, cookies, win.loadURL(fixUrl)
FixStart ==
  \E ext \in FixExts, unrar, sz, sz86 \in BOOLEAN :
    /\ fix.phase = "idle"
    /\ fix' = [NoFix EXCEPT !.phase = "fixPage", !.ext = ext, !.unrar = unrar,
                            !.sz = sz, !.sz86 = sz86]
    /\ UNCHANGED exceptFix

\* win.loadURL(fixUrl) rejected, or an await of the continuation threw: the
\* catch resolves with the message, except for ERR_FAILED and ERR_ABORTED,
\* after which only the timeout is left to resolve
FixThrows ==
  \E aborted \in BOOLEAN :
    /\ fix.phase \in {"fixPage", "uploads", "upFix", "reload", "search"}
    /\ aborted => fix.phase # "fixPage"
    /\ fix' = FixDone(fix, FixResult(FALSE, IF aborted THEN "Download timeout" ELSE ErrFixPage))
    /\ UNCHANGED exceptFix

\* the fix page is loaded: the uploads button is clicked, or there is none
FixPageLoaded ==
  \E button \in BOOLEAN :
    /\ fix.phase = "fixPage"
    /\ fix' = IF button THEN Enter(fix, "uploads")
                        ELSE FixDone(fix, FixResult(FALSE, ErrNoLink))
    /\ UNCHANGED exceptFix

\* win.loadURL(buttonClicked) and the first scan of the links of the page
UploadsScanned ==
  \E links \in {"zero", "some"} :
    /\ fix.phase = "uploads"
    /\ fix' = [Enter(fix, IF links = "zero" THEN "upFix" ELSE "search")
                 EXCEPT !.firstScan = links, !.links = links]
    /\ UNCHANGED exceptFix

\* fetchCookiesFromAPI('up_fix') resolved, with cookies or with []
UpFixFetched ==
  \E cookies \in BOOLEAN :
    /\ fix.phase = "upFix"
    /\ fix' = Enter(fix, IF cookies THEN "reload" ELSE "search")
    /\ UNCHANGED exceptFix

\* the page is loaded again with the new cookies and scanned again
Rescanned ==
  \E links \in {"zero", "some"} :
    /\ fix.phase = "reload"
    /\ fix' = [Enter(fix, AfterRescan(links)) EXCEPT !.links = links]
    /\ UNCHANGED exceptFix

\* the Fix Repair folder and the archive link are looked for; the link is
\* clicked, or no archive is found
Searched ==
  \E found \in BOOLEAN :
    /\ fix.phase = "search"
    /\ fix' = IF found THEN Enter(fix, "downloading")
                       ELSE FixDone(fix, FixResult(FALSE, ErrNoArchive))
    /\ UNCHANGED exceptFix

\* whether the first command's program is installed
FirstExtractor(f) == IF f.ext = ".rar" THEN f.unrar ELSE f.sz

\* item.on('done'): extractAndInstall(savePath, gamePath) when the download
\* completed; an extension that is none of .rar, .zip, .7z resolves at once
ItemFinished ==
  \E completed \in BOOLEAN :
    /\ fix.phase = "downloading"
    /\ fix' = IF ~completed THEN FixDone(fix, FixResult(FALSE, ErrFixDownload))
              ELSE IF fix.ext \notin {".rar", ".zip", ".7z"}
              THEN FixDone([fix EXCEPT !.archive = "present"], FixResult(FALSE, ErrUnsupported))
              ELSE [Enter(fix, "exec") EXCEPT !.archive = "present"]
    /\ UNCHANGED exceptFix

\* an archive deleted only once no extraction is left to run
KeepUntilLastAttempt(f, error, unlinkFails) ==
  IF error /\ (f.sz \/ f.sz86) THEN "present"
  ELSE IF unlinkFails THEN "present" ELSE "absent"

\* try { fs.unlinkSync(archivePath) } catch (e) { } as the first statement of
\* the exec callback
UnlinkInCallback(f, error, unlinkFails) ==
  IF unlinkFails THEN "present" ELSE "absent"

\* the callback of exec(command): the archive is unlinked, then the error is
\* looked at; tryAlternativeExtract runs 7z.exe from the first place where it
\* exists, or returns that no extractor was found
ExecDone ==
  \E failed, unlinkFails \in BOOLEAN :
    LET error == failed \/ ~FirstExtractor(fix)
        f == [fix EXCEPT !.archive = UnlinkInCallback(fix, error, unlinkFails)]
    IN /\ fix.phase = "exec"
       /\ fix' = IF ~error THEN FixDone(f, FixResult(TRUE, ""))
                 ELSE IF f.sz \/ f.sz86
                 THEN [Enter(f, "altExec") EXCEPT !.altSawArchive = f.archive]
                 ELSE FixDone(f, FixResult(FALSE, ErrNoExtractor))
       /\ UNCHANGED exceptFix

\* the callback of the alternative exec: 7z.exe fails on an archive that is
\* not there, and may fail on one that is
AltExecDone ==
  \E failed \in BOOLEAN :
    LET error == failed \/ fix.archive = "absent"
    IN /\ fix.phase = "altExec"
       /\ fix' = FixDone(fix, IF error THEN FixResult(FALSE, ErrAllMethods)
                                       ELSE FixResult(TRUE, ""))
       /\ UNCHANGED exceptFix

InitOnlineFix == InitFS /\ InitCall /\ NoInvocations /\ NoAux /\ last = Idle /\ ops = 0

NextOnlineFix ==
  \/ FixStart \/ FixThrows \/ FixPageLoaded \/ UploadsScanned \/ UpFixFetched
  \/ Rescanned \/ Searched \/ ItemFinished \/ ExecDone \/ AltExecDone

SpecOnlineFix == InitOnlineFix /\ [][NextOnlineFix]_vars

\* --------------------------------------- SpecRenderer: the library button

exceptUi == <<fsVars, last, ops, callVars, adapter, inv, flight, fix, tools>>

\* an updateLibraryButton(appId) call: waiting for isGameInLibrary ("unread"),
\* or holding its answer
Update(id, inLibrary) == [id |-> id, inLibrary |-> inLibrary]

\* something of the page is waiting for the main process
Busy ==
  ui.searches # {} \/ ui.updates # {} \/ ui.downloads # {} \/ ui.removals # {}

\* a button whose remove handler reads currentSearchedGameId when clicked
RemoveTargetShown(id) == ""

\* the remove handler is a closure over the appId updateLibraryButton got
RemoveTarget(id) == id

\* the id a click on the button in remove mode removes
ClickTarget == IF ui.button.target = "" THEN ui.shown ELSE ui.button.target

\* the user picks a game from the search results: loadGameById(appId)
Search ==
  \E id \in Ids :
    /\ id \notin ui.searches
    /\ ui' = [ui EXCEPT !.searches = @ \cup {id}, !.overlap = @ \/ Busy]
    /\ UNCHANGED exceptUi

\* searchGame answered: the game is displayed, currentSearchedGameId set,
\* updateLibraryButton(gameIdStr) called; or the search failed
SearchDone ==
  \E id \in ui.searches, found \in BOOLEAN :
    /\ ui' = IF found
             THEN [ui EXCEPT !.searches = @ \ {id}, !.shown = id,
                             !.updates = @ \cup {Update(id, "unread")}]
             ELSE [ui EXCEPT !.searches = @ \ {id}]
    /\ UNCHANGED exceptUi

\* getInstalledGames() answered for an updateLibraryButton call
UpdateRead ==
  \E u \in ui.updates :
    /\ u.inLibrary = "unread"
    /\ ui' = [ui EXCEPT !.updates = (@ \ {u}) \cup {Update(u.id, IF u.id \in ui.library THEN "yes" ELSE "no")}]
    /\ UNCHANGED exceptUi

\* the rest of updateLibraryButton: mode, onclick, disabled = false
UpdateApply ==
  \E u \in ui.updates :
    /\ u.inLibrary # "unread"
    /\ ui' = [ui EXCEPT
                !.updates = @ \ {u},
                !.button = IF u.inLibrary = "yes"
                           THEN [mode |-> "remove", target |-> RemoveTarget(u.id),
                                 disabled |-> FALSE]
                           ELSE [mode |-> "add", target |-> "", disabled |-> FALSE]]
    /\ UNCHANGED exceptUi

\* a click in add mode, addToLibrary, when the SteamTools checks pass (it
\* changes nothing here when they do not):
\* downloadManifest(currentSearchedGameId) with the button disabled
ClickAdd ==
  /\ ui.button.mode = "add" /\ ~ui.button.disabled
  /\ ui.shown # "" /\ ui.shown \notin ui.downloads
  /\ ui' = [ui EXCEPT !.button.disabled = TRUE, !.downloads = @ \cup {ui.shown},
                      !.overlap = @ \/ Busy]
  /\ UNCHANGED exceptUi

\* downloadManifest answered: on success the library is reloaded and
\* updateLibraryButton(gameId) called, otherwise the button is enabled again
DownloadDone ==
  \E id \in ui.downloads, success \in BOOLEAN :
    /\ ui' = IF success
             THEN [ui EXCEPT !.downloads = @ \ {id}, !.library = @ \cup {id},
                             !.updates = @ \cup {Update(id, "unread")}]
             ELSE [ui EXCEPT !.downloads = @ \ {id}, !.button.disabled = FALSE]
    /\ UNCHANGED exceptUi

\* a click in remove mode, confirmed: removeGame(appId) with the button
\* disabled
ClickRemove ==
  /\ ui.button.mode = "remove" /\ ~ui.button.disabled
  /\ ClickTarget \notin ui.removals
  /\ ui' = [ui EXCEPT !.button.disabled = TRUE, !.removals = @ \cup {ClickTarget},
                      !.overlap = @ \/ Busy]
  /\ UNCHANGED exceptUi

\* removeGame answered: the library is reloaded, updateLibraryButton(appId)
RemoveDone ==
  \E id \in ui.removals :
    /\ ui' = [ui EXCEPT !.removals = @ \ {id}, !.library = @ \ {id},
                        !.updates = @ \cup {Update(id, "unread")}]
    /\ UNCHANGED exceptUi

InitRenderer == InitFS /\ InitCall /\ NoInvocations /\ NoAux /\ last = Idle /\ ops = 0

NextRenderer ==
  \/ Search \/ SearchDone \/ UpdateRead \/ UpdateApply
  \/ ClickAdd \/ DownloadDone \/ ClickRemove \/ RemoveDone

SpecRenderer == InitRenderer /\ [][NextRenderer]_vars

\* ------------------------------ SpecTools: SteamToolsService

\* What is at the cache path: nothing ("absent"), a file just created
\* ("empty"), part of a body of at most 1 MB ("partialSmall") or of more
\* ("partialLarge"), a whole body of at most 1 MB ("page": an error page),
\* the whole installer ("complete").

\* fs.statSync(downloadPath).size > 1000000
LargerThan1MB(cached) == cached \in {"partialLarge", "complete"}

exceptTools == <<fsVars, last, ops, callVars, adapter, inv, flight, fix, ui>>

\* resolve(r) of downloadAndInstall
ToolsDone(t, r) == [t EXCEPT !.phase = "done", !.res = r]

\* whether the response emits 'error' after request.destroy(): that depends
\* on the runtime's http client
ErrorEmitted(emitted) == emitted

\* downloadAndInstall: a cached file of more than 1 MB is opened as it is;
\* otherwise what is there is unlinked and the download starts on a new
\* write stream
ToolsCall ==
  /\ tools.phase \in {"idle", "done"} /\ tools.calls < MaxToolsCalls
  /\ tools' = IF LargerThan1MB(tools.file)
              THEN [ToolsDone(tools, FixResult(TRUE, ""))
                      EXCEPT !.opened = tools.file, !.calls = @ + 1]
              ELSE [tools EXCEPT !.phase = "request", !.file = "empty", !.redirects = 0,
                                 !.res = NoFixResult, !.calls = @ + 1]
  /\ UNCHANGED exceptTools

\* request.on('error'): file.close(), the file is left where it is
ToolsRequestError ==
  /\ tools.phase = "request"
  /\ tools' = ToolsDone(tools, FixResult(FALSE, ErrNetwork))
  /\ UNCHANGED exceptTools

\* 301 or 302 with a Location header: file.close(), downloadWithUrl again
ToolsRedirect ==
  /\ tools.phase = "request" /\ tools.redirects < MaxRedirects
  /\ tools' = [tools EXCEPT !.redirects = @ + 1, !.file = "empty"]
  /\ UNCHANGED exceptTools

\* any other status that is not 200: file.close(), unlink
ToolsStatus ==
  /\ tools.phase = "request"
  /\ tools' = [ToolsDone(tools, FixResult(FALSE, "HTTP status")) EXCEPT !.file = "absent"]
  /\ UNCHANGED exceptTools

\* status 200: response.pipe(file)
ToolsResponse ==
  /\ tools.phase = "request"
  /\ tools' = [tools EXCEPT !.phase = "body"]
  /\ UNCHANGED exceptTools

\* a chunk of the body is written
ToolsData ==
  /\ tools.phase = "body" /\ tools.file \in {"empty", "partialSmall"}
  /\ tools' = [tools EXCEPT !.file = IF @ = "empty" THEN "partialSmall" ELSE "partialLarge"]
  /\ UNCHANGED exceptTools

\* file.on('finish'): the body ended, the file is closed and opened
ToolsFinish ==
  LET whole == IF tools.file = "partialLarge" THEN "complete" ELSE "page"
  IN /\ tools.phase = "body"
     /\ tools' = [ToolsDone(tools, FixResult(TRUE, ""))
                    EXCEPT !.file = whole, !.opened = whole]
     /\ UNCHANGED exceptTools

\* file.on('error') or response.on('error'): file.close(), unlink
ToolsStreamError ==
  /\ tools.phase = "body"
  /\ tools' = [ToolsDone(tools, FixResult(FALSE, ErrStream)) EXCEPT !.file = "absent"]
  /\ UNCHANGED exceptTools

\* request.setTimeout(60000): request.destroy() and resolve; the handler
\* itself unlinks nothing, the response's 'error' handler does when it runs
ToolsTimeout ==
  \E emitted \in BOOLEAN :
    /\ tools.phase \in {"request", "body"}
    /\ tools' = [ToolsDone(tools, FixResult(FALSE, "Download timeout"))
                   EXCEPT !.file = IF tools.phase = "body" /\ ErrorEmitted(emitted)
                                   THEN "absent" ELSE @,
                          !.silent = @ \/ (tools.phase = "body" /\ ~ErrorEmitted(emitted))]
    /\ UNCHANGED exceptTools

\* the application quits while the download is in flight; the next process
\* finds the file as it was left
ToolsQuit ==
  /\ tools.phase \in {"request", "body"}
  /\ tools' = [tools EXCEPT !.phase = "idle", !.quit = TRUE]
  /\ UNCHANGED exceptTools

InitTools == InitFS /\ InitCall /\ NoInvocations /\ NoAux /\ last = Idle /\ ops = 0

NextTools ==
  \/ ToolsCall \/ ToolsRequestError \/ ToolsRedirect \/ ToolsStatus \/ ToolsResponse
  \/ ToolsData \/ ToolsFinish \/ ToolsStreamError \/ ToolsTimeout \/ ToolsQuit

SpecTools == InitTools /\ [][NextTools]_vars

\* --------------------------------- SpecOverlap: calls in flight together

\* a read of installed.json taken when the call began
LedgerReadAtStart(c) == c.seen

\* getInstalledGames() inside addToInstalledGames and removeGame reads the
\* file as it is when the step runs
LedgerRead(c) == ledger

exceptFlight == <<last, ops, callVars, adapter, inv, fix, ui, tools>>

\* the calls are numbered in the order they are made
NextToStart(k) ==
  /\ flight.calls[k].state = "idle"
  /\ \A j \in 1..(k - 1) : flight.calls[j].state # "idle"

InFlight == \E j \in 1..MaxFlights : flight.calls[j].state = "pending"

\* ipcMain.handle('download-manifest'): the download starts, the handler
\* returns to the event loop
BeginInstall(k) ==
  \E id \in Ids :
    /\ NextToStart(k)
    /\ flight' = [flight EXCEPT
                    !.calls[k] = [kind |-> "install", id |-> id, state |-> "pending",
                                  seen |-> ledger],
                    !.overlapped = @ \/ InFlight]
    /\ UNCHANGED <<fsVars, exceptFlight>>

\* file.on('finish') of a call in flight: extractAndInstall runs to its end
\* in one task of the event loop
FinishInstall(k) ==
  \E p \in OrchPayloads :
    LET c == flight.calls[k]
        out == ExtractAndInstall([FS EXCEPT !.ledger = LedgerRead(c)], p, c.id, NoFault)
        written == GetInstalledGames(out.fs.ledger)
    IN /\ c.state = "pending"
       /\ Apply(out)
       /\ flight' = [flight EXCEPT
                       !.calls[k].state = "done",
                       !.log = IF out.res.success
                               THEN Append(@, [op |-> "upsert", id |-> c.id,
                                               game |-> written[Len(written)]])
                               ELSE @]
       /\ UNCHANGED exceptFlight

\* ipcMain.handle('remove-game'): removeGame runs to its end in the handler
RemoveCall(k) ==
  \E id \in Ids :
    LET c == [kind |-> "remove", id |-> id, state |-> "done", seen |-> ledger]
        out == RemoveGame([FS EXCEPT !.ledger = LedgerRead(c)], id, NoFault)
    IN /\ NextToStart(k)
       /\ Apply(out)
       /\ flight' = [flight EXCEPT
                       !.calls[k] = c,
                       !.overlapped = @ \/ InFlight,
                       !.log = IF out.res.success
                               THEN Append(@, [op |-> "remove", id |-> id, game |-> NoCall])
                               ELSE @]
       /\ UNCHANGED exceptFlight

InitOverlap == InitFS /\ InitCall /\ NoInvocations /\ NoAux /\ last = Idle /\ ops = 0

NextOverlap ==
  \E k \in 1..MaxFlights : BeginInstall(k) \/ FinishInstall(k) \/ RemoveCall(k)

SpecOverlap == InitOverlap /\ [][NextOverlap]_vars

AdapterOrder == <<"ManifestHub", "Kernelos", "Manifestor">>

\* the ManifestHub request failed: a network error, a 404, or a body of a
\* response that was no 2xx handed to the installer
HubFailure ==
  \/ hub.at = "error"
  \/ hub.at = "notfound" /\ last.op = "none"
  \/ hub.at = "done" /\ hub.status # 200

\* C1: a failure result reaches the caller only after ManifestHub, Kernelos
\* and Manifestor have all been tried, whatever way the ManifestHub request
\* failed (404, another status that is no 2xx, a network error).
C1_FailureOnlyAfterAllAdapters ==
  (HubFailure /\ settle = "fulfilled" /\ ~result.success) => tried = AdapterOrder

\* the ManifestHub request is under way
HubRunning == hub.at \in {"request", "redirect", "body", "redirectBody"}

\* an adapter invocation whose promise is not settled
Active(a) == a.res.state = "pending"

\* C2: the adapters of a call are started in the order ManifestHub, Kernelos,
\* Manifestor, none twice; at most one of them is active at a time; Kernelos
\* starts only after ManifestHub answered 404 and Manifestor only after the
\* Kernelos promise settled with a failure.
C2_LinearFallback ==
  /\ IsPrefix(tried, AdapterOrder)
  /\ ~(HubRunning /\ (Active(kernelos) \/ Active(manifestor)))
  /\ ~(Active(kernelos) /\ Active(manifestor))
  /\ (Len(tried) >= 2 \/ kernelos.res.state # "idle") => hub.at = "notfound"
  /\ (Len(tried) >= 3 \/ manifestor.res.state # "idle") => kernelos.res.state = "fail"
  /\ kernelos.res.state # "idle" => Len(tried) >= 2
  /\ manifestor.res.state # "idle" => Len(tried) = 3

\* C2 witness: Manifestor is running after Kernelos was started and failed
C2_ManifestorAfterKernelos ==
  /\ tried = AdapterOrder
  /\ Active(manifestor) /\ manifestor.phase = "polling"
  /\ kernelos.res.state = "fail" /\ kernelos.win = "closed"

\* C4: the persisted ledger holds at most one record per appId, after any
\* sequence of downloadManifest and removeGame calls from an empty ledger.
C4_OneRecordPerAppId ==
  LET games == GetInstalledGames(ledger)
  IN \A id \in Ids : Cardinality({i \in 1..Len(games) : games[i].appId = id}) <= 1

\* C4 witness: an id that had a record was installed again
C4_Reinstalled ==
  LET games == GetInstalledGames(ledger)
      old == GetInstalledGames(last.before.ledger)
  IN /\ last.op # "none" /\ last.out.res.success
     /\ \E i \in 1..Len(old) : old[i].appId = last.id
     /\ \E i \in 1..Len(games) : games[i].appId = last.id

\* C5: every call resolves: while the promise of a call is pending, a
\* callback of the call is still to come.
C5_PendingCallHasCallback ==
  (pc # "idle" /\ settle = "pending") => ENABLED Callback

\* C6: no failure makes the promise reject or leaves a rejection unhandled,
\* and a request that failed (network error, stream error, connection lost
\* during the body) has given the caller a result with success = false.
C6_FailuresBecomeResults ==
  /\ settle # "rejected"
  /\ ~unhandled
  /\ hub.at \in {"error", "streamError", "aborted"} =>
       settle = "fulfilled" /\ ~result.success

\* all three adapters failed and the call has its result
AllFailed ==
  /\ tried = AdapterOrder /\ settle = "fulfilled"
  /\ manifestor.res.state = "fail"

\* C7: when all three adapters failed the error is 'No manifest found for
\* App ID: <id>', whatever way Manifestor failed.
C7_AlwaysNotFound == AllFailed => ~result.success /\ result.error = ErrNotFound

\* C7, as the code has it: the error is the message of the Manifestor
\* adapter's failure ('Window closed by user', 'Download failed: ...',
\* 'Failed to load Manifestor: ...', the message of an automation exception),
\* and 'No manifest found for App ID: <id>' when that message is empty, as
\* it is after the timeout, after the polls ran out and when the adapter
\* could not be started.
C7_AdapterMessageOrNotFound ==
  AllFailed =>
    /\ ~result.success
    /\ result.error # ""
    /\ result.error =
         IF manifestor.res.error = "" THEN ErrNotFound ELSE manifestor.res.error
    /\ result.error = ErrDownload => manifestor.item = "done"
    /\ result.error = ErrClosed => manifestor.win = "closed"

\* C7 witness: the user closed the Manifestor window and the caller reads so
C7_WindowClosedReported == AllFailed /\ result.error = ErrClosed

\* the last operation was an install from an archive
ArchiveInstall == last.op \in {"extractAndInstall", "extractAndInstallKernelos"}

\* C3: every record of the persisted ledger lists at least one file, and an
\* install that copied no recognised file returns failure and leaves the
\* ledger as it was.
C3_NoRecordWithoutFiles ==
  LET games == GetInstalledGames(ledger)
  IN /\ \A i \in 1..Len(games) : Len(games[i].files) > 0
     /\ (last.op \in {"extractAndInstall", "extractAndInstallKernelos", "installDirectFile"}
           /\ last.out.res.success)
          => \E i \in 1..Len(games) : games[i].appId = last.id /\ Len(games[i].files) > 0

\* C8: a payload whose first two bytes are not "PK" is never extracted, on
\* either archive path, and its install returns failure.
C8_NoExtractionWithoutMagic ==
  (ArchiveInstall /\ last.payload.exists /\ ~last.payload.magic)
    => ~last.out.extracted /\ ~last.out.res.success

\* the files of a bundle that have a recognised extension, at any depth
Recognised(entries) == {e \in entries : DestPath(e.name) # NoPath}

\* the record of id in the ledger l; it exists where this is used
RecordOf(l, id) ==
  LET games == GetInstalledGames(l)
  IN games[CHOOSE i \in 1..Len(games) : games[i].appId = id]

\* C9: an archive install in which no copy fails records exactly one entry
\* per .lua, .vdf or .manifest file of the bundle, at any depth, and no
\* other entry.
C9_RecordsEveryRecognisedFile ==
  (ArchiveInstall /\ last.fault.kind # "copy" /\ last.out.res.success)
    => LET files == RecordOf(ledger, last.id).files
           found == Recognised(last.payload.entries)
       IN /\ Len(files) = Cardinality(found)
          /\ {files[i].path : i \in 1..Len(files)} = {DestPath(e.name) : e \in found}

\* the name a bundle's JSON descriptor gives, at any depth; id without one
DescriptorName(entries, id) ==
  IF \E e \in entries : ExtName(e.name) = ".json" /\ e.json = JsonNamed
  THEN JsonNamed ELSE id

\* C10: the name of the record and of the result of an archive install is
\* the name field of the bundle's JSON descriptor, also when it lies two
\* directories deep, and the appId when there is none.
C10_NameFromDescriptor ==
  (ArchiveInstall /\ last.out.res.success)
    => /\ last.out.res.name = DescriptorName(last.payload.entries, last.id)
       /\ RecordOf(ledger, last.id).name = DescriptorName(last.payload.entries, last.id)

\* the last operation was an install
Install == last.op \in {"extractAndInstall", "extractAndInstallKernelos", "installDirectFile"}

\* the record the last install handed to addToInstalledGames
BuiltRecord ==
  LET f == last.before
      id == last.id
      tree == ExtractAllTo(f.extractDir[id], last.payload.entries)
      start == [files |-> << >>, disk |-> f.disk]
  IN CASE last.op = "installDirectFile" -> Game(id, id, <<Listed(last.filename)>>)
       [] last.op = "extractAndInstall" ->
            LET loop == HubLoop(1, tree, last.fault,
                                [files |-> << >>, disk |-> f.disk, name |-> id])
            IN Game(id, loop.name, loop.files)
       [] OTHER -> Game(id, id, FindFiles(RootDir, 1, tree, last.fault, start).files)

\* C11: after addToInstalledGames(record) getInstalledGames holds exactly one
\* record with that appId: the record just passed, in the last place, also
\* when the id had a record before; the records of the other ids are the
\* ones read before, in the same order.
C11_UpsertReplacesById ==
  (Install /\ last.out.res.success) =>
    LET games == GetInstalledGames(ledger)
        old == GetInstalledGames(last.before.ledger)
    IN /\ Cardinality({i \in 1..Len(games) : games[i].appId = last.id}) = 1
       /\ games[Len(games)] = BuiltRecord
       /\ SubSeq(games, 1, Len(games) - 1) = FilterOut(old, last.id)

\* C11 witness: an id whose record stood first among three was installed
\* again with another payload
C11_ReplacedAndMovedLast ==
  LET games == GetInstalledGames(ledger)
      old == GetInstalledGames(last.before.ledger)
  IN /\ Install /\ last.out.res.success
     /\ Len(old) = 3 /\ old[1].appId = last.id
     /\ Len(games) = 3 /\ games[3] # old[1]
     /\ games[1] = old[2] /\ games[2] = old[3]

\* the ledger read before the last operation held a record of its id
HadRecord ==
  LET old == GetInstalledGames(last.before.ledger)
  IN \E i \in 1..Len(old) : old[i].appId = last.id

\* C12: removeGame(id) for an id without a record returns success = false
\* with 'Game not found in installed list' and changes neither the ledger,
\* nor the installed files, nor the extraction cache of the id.
C12_RemoveUnknownChangesNothing ==
  (last.op = "removeGame" /\ ~HadRecord) =>
    /\ ~last.out.threw
    /\ ~last.out.res.success /\ last.out.res.error = ErrNotInstalled
    /\ FS = last.before

\* C12 witness: removeGame of an id without a record while files of that id
\* are installed and its extraction cache is filled
C12_UnknownWithFilesAround ==
  /\ last.op = "removeGame" /\ ~HadRecord
  /\ disk # {} /\ extractDir[last.id] # {}

\* the paths the record of the last operation's id listed before it ran
ListedBefore ==
  LET files == RecordOf(last.before.ledger, last.id).files
  IN {files[i].path : i \in 1..Len(files)}

\* C13: removeGame(id) of a recorded id, when no file-system call fails,
\* returns success whether or not the listed files are all still on disk:
\* none of the listed files is on disk afterwards, no other file is touched,
\* and the ledger is the old list without the record of id.
C13_RemoveToleratesMissingFiles ==
  (last.op = "removeGame" /\ HadRecord /\ last.fault = NoFault) =>
    /\ ~last.out.threw /\ last.out.res.success
    /\ disk = last.before.disk \ ListedBefore
    /\ ledger = LedgerOf(FilterOut(GetInstalledGames(last.before.ledger), last.id))

\* C13 witness: scenario C - a record of three files, one of them gone from
\* disk, is removed: the two others are deleted, the other records stay
C13_ScenarioC ==
  /\ last.op = "removeGame" /\ HadRecord /\ last.out.res.success
  /\ Cardinality(ListedBefore) = 3
  /\ Cardinality(ListedBefore \cap last.before.disk) = 2
  /\ ListedBefore \cap disk = {}
  /\ Len(GetInstalledGames(ledger)) = 2

\* the list the last operation set out to persist
NewGames ==
  LET old == GetInstalledGames(last.before.ledger)
  IN IF last.op = "removeGame" THEN FilterOut(old, last.id)
     ELSE Append(FilterOut(old, last.id), BuiltRecord)

\* C14: persisting the ledger is atomic: after an install or a removeGame,
\* also one whose write of installed.json failed part-way, getInstalledGames
\* returns the complete old list or the complete new one.
C14_LedgerWriteIsAtomic ==
  last.op # "none" =>
    \/ GetInstalledGames(ledger) = GetInstalledGames(last.before.ledger)
    \/ GetInstalledGames(ledger) = NewGames

\* an adapter of the call in flight delivered a payload
Delivered ==
  hub.at = "done" \/ kernelos.res.state = "ok" \/ manifestor.res.state = "ok"

\* C15: once an adapter delivered a payload no later adapter is started in
\* that call, and the result of the install step - success or failure - is
\* the result the caller receives.
C15_InstallResultIsFinal ==
  /\ hub.at = "done" =>
       tried = <<"ManifestHub">> /\ kernelos = NoAdapter /\ manifestor = NoAdapter
  /\ kernelos.res.state = "ok" =>
       tried = <<"ManifestHub", "Kernelos">> /\ manifestor = NoAdapter
  /\ hub.at = "done" => last.op = "extractAndInstall"
  /\ (Delivered /\ last.op # "none") =>
       /\ settle = "fulfilled" /\ pc = "settled"
       /\ result = last.out.res

\* C15 witness: Kernelos delivered an archive with nothing to install; the
\* caller has the installer's failure and Manifestor was not tried
C15_FailedInstallNotRetried ==
  /\ kernelos.res.state = "ok" /\ last.op = "extractAndInstallKernelos"
  /\ settle = "fulfilled" /\ result = Err(ErrNoFiles)
  /\ tried = <<"ManifestHub", "Kernelos">>

\* the call is inside tryKernelosFallback or tryManifestorFallback
InFallback == pc \in {"kernelosImport", "kernelos", "manifestorImport", "manifestor"}

\* C16: after a 404 from ManifestHub or from its redirect target Kernelos is
\* the next adapter tried, the caller has no result while the fallbacks
\* run, and the result it gets in the end is that of an install step or of
\* the last adapter's failure.
C16_NotFoundFallsThrough ==
  hub.at = "notfound" =>
    /\ Len(tried) >= 2 /\ tried[2] = "Kernelos"
    /\ pc = "settled" \/ InFallback
    /\ InFallback => settle = "pending" /\ result = NoResult
    /\ pc = "settled" =>
         \/ last.op # "none" /\ result = last.out.res
         \/ tried = AdapterOrder /\ manifestor.res.state = "fail" /\ ~result.success

\* C16 witness: after the 404 the Kernelos window is open and polling, and
\* the caller has nothing yet
C16_KernelosRunningNoResult ==
  /\ hub.at = "notfound" /\ pc = "kernelos"
  /\ Active(kernelos) /\ kernelos.phase = "polling" /\ kernelos.win = "open"
  /\ settle = "pending" /\ result = NoResult

\* the directory and the kind the spec gives a file name, by its extension
\* in either case
Expected(name) ==
  CASE name.ext \in {".lua", ".LUA"} -> [path |-> <<"stplug-in", name>>, type |-> "lua"]
    [] name.ext \in {".vdf", ".VDF"} -> [path |-> <<"stplug-in", name>>, type |-> "vdf"]
    [] name.ext \in {".manifest", ".MANIFEST"} ->
         [path |-> <<"depotcache", name>>, type |-> "manifest"]
    [] OTHER -> [path |-> << >>, type |-> ""]

\* what the extraction directory of the last install held after extractAllTo
TreeOfLast == ExtractAllTo(last.before.extractDir[last.id], last.payload.entries)

\* the files of that tree the last archive install walks: all of them on the
\* Kernelos path, those of the folder ManifestHub-<id> itself on the other
Walked ==
  IF last.op = "extractAndInstall" THEN {e \in TreeOfLast : e.dir = HubDir} ELSE TreeOfLast

\* C17: an archive install copies a walked file under its own name to
\* stplug-in when its extension is .lua or .vdf and to depotcache when it is
\* .manifest, whatever the case of the extension, and records it with the
\* kind lua, vdf or manifest; a file of another extension is neither copied
\* nor recorded, and is never what makes the install fail.
C17_FilesGoByExtension ==
  (ArchiveInstall /\ last.out.extracted /\ last.fault = NoFault) =>
    LET kinds == {e \in Walked : Expected(e.name).type # ""}
        files == IF last.out.res.success THEN RecordOf(ledger, last.id).files ELSE << >>
    IN /\ disk \ last.before.disk \subseteq {Expected(e.name).path : e \in kinds}
       /\ \A e \in kinds :
            (last.op = "extractAndInstallKernelos" \/ last.out.res.success)
              => Expected(e.name).path \in disk
       /\ last.out.res.success =>
            {files[i] : i \in 1..Len(files)} = {Expected(e.name) : e \in kinds}
       /\ ~last.out.res.success =>
            IF last.op = "extractAndInstall" THEN ~HasHubFolder(TreeOfLast) ELSE kinds = {}

\* C17 witness: a bundle with up.LUA, app.vdf, bar.manifest, foo.lua and
\* readme.txt was installed: four files copied and recorded, readme.txt left
\* out
C17_OneOfEachKind ==
  /\ ArchiveInstall /\ last.out.res.success /\ last.payload.entries = ScenarioKinds
  /\ {<<"stplug-in", UpperLua>>, <<"stplug-in", AppVdf>>, <<"depotcache", BarManifest>>}
       \subseteq disk \ last.before.disk
  /\ Len(RecordOf(ledger, last.id).files) = 4
  /\ \A d \in disk : d[2] # ReadmeTxt

\* C18: in an archive install the copy of one file fails: every other
\* walked file of a recognised kind, before and after it in the walk, is
\* copied; when there is one the install returns success and the record lists
\* exactly those; nothing that was on disk is taken away again.
C18_FailedCopyIsSkipped ==
  (ArchiveInstall /\ last.out.extracted /\ last.fault = CopyFault) =>
    LET kinds == {e \in Walked : Expected(e.name).type # ""}
        copied == {Expected(e.name) : e \in kinds} \ {Expected(FooLua)}
        files == IF last.out.res.success THEN RecordOf(ledger, last.id).files ELSE << >>
    IN /\ {c.path : c \in copied} \cup last.before.disk \subseteq disk
       /\ copied # {} => last.out.res.success
       /\ last.out.res.success => {files[i] : i \in 1..Len(files)} = copied

\* C18 witness: the copy of foo.lua failed in the middle of a walk; app.vdf and
\* bar.manifest before it and up.LUA after it are installed and recorded
C18_WalkWentOn ==
  /\ ArchiveInstall /\ last.fault = CopyFault /\ last.payload.entries = ScenarioKinds
  /\ last.out.res.success
  /\ <<"stplug-in", FooLua>> \notin disk
  /\ LET files == RecordOf(ledger, last.id).files
     IN /\ Len(files) = 3
        /\ files[3] = Expected(UpperLua)
        /\ Expected(UpperLua).path \in disk

\* C19: an install deletes no file from stplug-in or depotcache - only
\* removeGame does - and a re-install of an id leaves the files its previous
\* record listed on disk and the records of the other ids as they were.
C19_OnlyRemoveGameDeletes ==
  /\ last.op \notin {"none", "removeGame"} => last.before.disk \subseteq disk
  /\ (Install /\ HadRecord) => ListedBefore \cap last.before.disk \subseteq disk
  /\ (Install /\ HadRecord /\ last.out.res.success) =>
       FilterOut(GetInstalledGames(ledger), last.id)
         = FilterOut(GetInstalledGames(last.before.ledger), last.id)

\* C19 witness: an id was installed again from another payload; a file only
\* its previous record listed is still on disk
C19_OldFilesLeftBehind ==
  /\ Install /\ HadRecord /\ last.out.res.success
  /\ LET files == RecordOf(ledger, last.id).files
     IN \E path \in ListedBefore \cap disk : \A i \in 1..Len(files) : files[i].path # path

\* writeFileSync of installed.json fails in the last operation
WriteFails == last.fault.kind \in {"write", "writeTorn"}

\* the last install, had no file-system call failed, would have succeeded
WouldSucceed ==
  LET f == last.before
  IN CASE last.op = "extractAndInstall" ->
            ExtractAndInstall(f, last.payload, last.id, NoFault).res.success
       [] last.op = "extractAndInstallKernelos" ->
            ExtractAndInstallKernelos(f, last.payload, last.id, NoFault).res.success
       [] last.op = "installDirectFile" ->
            InstallDirectFile(f, last.payload, last.filename, last.id, NoFault).res.success
       [] OTHER -> FALSE

\* C20: a failed write of the ledger is never reported as success: the
\* install in which addToInstalledGames fails returns a failure result, and
\* the removeGame call in which the write fails throws to its caller.
C20_WriteFailurePropagates ==
  /\ (last.op # "none" /\ WriteFails) => ~last.out.res.success
  /\ (Install /\ WriteFails /\ WouldSucceed) =>
       /\ ~last.out.threw
       /\ last.out.res.error \in {ErrExtract, ErrInstall}
       /\ ledger \in {last.before.ledger, TornLedger}
  /\ (last.op = "removeGame" /\ WriteFails /\ HadRecord) =>
       /\ last.out.threw
       /\ ledger \in {last.before.ledger, TornLedger}

\* C20 witness: the files of an archive were copied, then the write of the
\* ledger failed: the install returns 'Failed to extract'
C20_InstallFailedOnWrite ==
  /\ ArchiveInstall /\ WriteFails /\ WouldSucceed
  /\ last.out.res = Err(ErrExtract)
  /\ disk # last.before.disk
  /\ ledger = last.before.ledger

\* C21: getInstalledGames returns the empty sequence and throws nothing when
\* installed.json is absent or does not parse: removeGame then answers 'Game
\* not found in installed list', and an install starts the ledger anew with
\* its one record.
C21_UnreadableLedgerReadsEmpty ==
  (last.op # "none" /\ last.before.ledger.state \in {"absent", "corrupt"}) =>
    /\ GetInstalledGames(last.before.ledger) = << >>
    /\ last.op = "removeGame" =>
         ~last.out.threw /\ last.out.res.error = ErrNotInstalled
    /\ (last.op = "installDirectFile" /\ last.fault = NoFault /\ last.payload.exists
          /\ Expected(last.filename).type # "") =>
         last.out.res.success /\ GetInstalledGames(ledger) = <<BuiltRecord>>

\* C21 witness: installed.json was left cut short by a failed write; the next
\* install reads it as empty and succeeds
C21_InstallOverCorruptLedger ==
  /\ Install /\ last.before.ledger = TornLedger
  /\ last.out.res.success
  /\ Len(GetInstalledGames(ledger)) = 1

\* C22: installDirectFile on a file that exists, with no file-system failure:
\* a name with a recognised extension is copied to its directory and the id
\* gets a record with name = id and that one file entry; a name with another
\* extension gives 'Unknown file type' and leaves disk and ledger alone.
C22_DirectFileInstall ==
  (last.op = "installDirectFile" /\ last.payload.exists) =>
    IF Expected(last.filename).type # ""
    THEN last.fault = NoFault =>
           /\ last.out.res = Ok(last.id, last.id)
           /\ disk = last.before.disk \cup {Expected(last.filename).path}
           /\ RecordOf(ledger, last.id) = Game(last.id, last.id, <<Expected(last.filename)>>)
    ELSE /\ last.out.res = Err(ErrUnknownType)
         /\ disk = last.before.disk
         /\ ledger = last.before.ledger

\* C22 witness: bar.manifest was installed as a direct file into depotcache
C22_ManifestInstalledDirectly ==
  /\ last.op = "installDirectFile" /\ last.filename = BarManifest
  /\ last.out.res.success
  /\ <<"depotcache", BarManifest>> \in disk \ last.before.disk
  /\ RecordOf(ledger, last.id).files = <<[path |-> <<"depotcache", BarManifest>>,
                                           type |-> "manifest"]>>

\* C23: what getInstalledGames loads is what was persisted: after an
\* operation that wrote installed.json the records read back are the list
\* handed to the write - the same records in the same order, each with its
\* appId, name and files (path and type, in order) - and writing what was
\* read and reading again changes nothing.
C23_LedgerRoundTrip ==
  LET games == GetInstalledGames(ledger)
  IN /\ GetInstalledGames(LedgerOf(games)) = games
     /\ (last.op # "none" /\ ledger.state = "ok" /\ ledger # last.before.ledger) =>
          games = NewGames

\* C23 witness: a ledger of three records, the last one with a name taken
\* from a descriptor and more than one file, was written and read back
C23_ThreeRecordsReadBack ==
  LET games == GetInstalledGames(ledger)
  IN /\ Install /\ last.out.res.success /\ ledger # last.before.ledger
     /\ Len(games) = 3
     /\ games[3].name = JsonNamed /\ Len(games[3].files) >= 2
     /\ games[3].files[1].type # games[3].files[2].type

\* the last operation was an install that got as far as disableAutoUpdate
HookRan == Install /\ last.out.res.success

\* C29: when appmanifest_<id>.acf exists and can be read and written,
\* disableAutoUpdate leaves it with AutoUpdateBehavior set to "1" and the rest
\* of the content as it was: every occurrence of the key has its value
\* replaced where it stands; when the key is missing it is inserted right
\* before the last closing brace; the appmanifest of no other id changes.
C29_AutoUpdateKeySet ==
  (HookRan /\ last.fault.kind # "hook" /\ last.before.acf[last.id] # NoAcf) =>
    LET b == last.before.acf[last.id]
        a == acf[last.id]
        keys == {i \in 1..Len(b) : b[i] \in AubTokens}
    IN /\ \A j \in Ids \ {last.id} : acf[j] = last.before.acf[j]
       /\ IF keys # {}
          THEN /\ Len(a) = Len(b)
               /\ \A i \in 1..Len(b) : a[i] = IF i \in keys THEN "AUB1" ELSE b[i]
          ELSE \E k \in 1..Len(b) :
                 /\ b[k] = "}" /\ \A j \in (k + 1)..Len(b) : b[j] # "}"
                 /\ a = SubSeq(b, 1, k - 1) \o <<"AUB1">> \o SubSeq(b, k, Len(b))

\* C29 witness: an appmanifest with a nested section and no key got the key
\* before its last brace, not before the inner one
C29_KeyInsertedBeforeLastBrace ==
  /\ HookRan /\ last.id = "570"
  /\ last.before.acf["570"] = <<"{", "other", "{", "other", "}", "}">>
  /\ acf["570"] = <<"{", "other", "{", "other", "}", "AUB1", "}">>

\* C30: disableAutoUpdate never changes what an install returns: when the
\* appmanifest of the id is absent nothing is created or modified, when
\* reading or writing it fails the appmanifest stays as it was, and in both
\* cases the install returns what it returns when the step goes well - success
\* when it would have succeeded - with the record of the id in the ledger.
C30_HookNeverChangesOutcome ==
  (Install /\ (last.fault.kind = "hook" \/ last.before.acf[last.id] = NoAcf)) =>
    /\ acf = last.before.acf
    /\ last.fault.kind = "hook" =>
         /\ last.out.res.success = WouldSucceed
         /\ ~last.out.threw
    /\ last.out.res.success =>
         /\ last.out.res.appId = last.id
         /\ RecordOf(ledger, last.id) = BuiltRecord

\* C30 witness: the write of the appmanifest failed during an install that
\* returned success and kept its record
C30_HookFailedInstallSucceeded ==
  /\ Install /\ last.fault.kind = "hook" /\ last.before.acf[last.id] # NoAcf
  /\ last.out.res.success
  /\ RecordOf(ledger, last.id) = BuiltRecord
  /\ acf = last.before.acf

\* C28: the ManifestHub adapter hands to extractAndInstall only the body of
\* a 2xx response: under any other status that is not 404, of the first
\* response or of the redirect target, no body is written to zipPath and
\* extractAndInstall is not called.
C28_OnlySuccessBodyExtracted ==
  /\ hub.status \notin {0, 200} => file.data \in {NoFile, EmptyFile}
  /\ hub.at = "done" => hub.status = 200

C25_OnlyOwnWindowClosed ==
  /\ \A i \in DOMAIN inv : inv[i].closedBy \in {0, i}
  /\ (\A i \in DOMAIN inv : inv[i].a.res.state # "pending") =>
       \A i \in DOMAIN inv : inv[i].a.win # "open"

\* C26: the coarse timeout is armed from the start of an invocation: while
\* the window is open and the invocation has not resolved the timer is
\* armed; when it fires the window is closed and the promise settles with a
\* failure; once the promise has settled the timer is no longer armed.
C26_TimeoutCoversInvocation ==
  \A i \in DOMAIN inv :
    /\ (inv[i].a.win = "open" /\ inv[i].a.res.state = "pending" /\ ~inv[i].a.resolved) =>
         inv[i].a.timer
    /\ inv[i].exit = "timeout" =>
         inv[i].a.res = Failed(TimeoutError) /\ inv[i].a.win = "closed"
    /\ Awaited(inv[i].a.res) => ~inv[i].a.timer

\* C27: a polling adapter whose polls use up the attempt budget, or the
\* Kernelos poll that reads the 'Not found or error.' marker, stops polling
\* and settles the promise with 'No manifest found for App ID', not with a
\* timeout.
C27_PollExhaustionIsNotFound ==
  \A i \in DOMAIN inv :
    /\ inv[i].exit \in {"exhausted", "marker"} =>
         /\ inv[i].a.res = Failed(ErrNotFound)
         /\ inv[i].a.phase = "stopped"
    /\ inv[i].a.attempts > MaxAttempts => inv[i].a.phase = "stopped"

\* C27 witness: one Kernelos invocation ended on the marker, the next one
\* when its polls ran out
C27_MarkerThenExhausted ==
  /\ adapter = "Kernelos"
  /\ inv[1].exit = "marker"
  /\ inv[2].exit = "exhausted" /\ inv[2].a.attempts > KernelosMaxAttempts
  /\ inv[2].a.res.error = ErrNotFound

\* the AutoUpdateBehavior entries of an appmanifest text
AubEntries(content) == {i \in 1..Len(content) : content[i] \in AubTokens}

\* on every text of AcfContents the second application changes nothing
PatchedTwiceIsPatchedOnce ==
  \A c \in AcfContents :
    /\ PatchAcf(PatchAcf(c)) = PatchAcf(c)
    /\ Cardinality(AubEntries(PatchAcf(PatchAcf(c)))) = Cardinality(AubEntries(PatchAcf(c)))

\* C39: disableAutoUpdate is idempotent: on every appmanifest text a second
\* application gives what the first gave and no second AutoUpdateBehavior
\* entry is added; the appmanifest an install has just patched is a fixed
\* point of the patch.
C39_DisableAutoUpdateIdempotent ==
  /\ PatchedTwiceIsPatchedOnce
  /\ (HookRan /\ last.fault.kind # "hook" /\ acf[last.id] # NoAcf) =>
       /\ PatchAcf(acf[last.id]) = acf[last.id]
       /\ Cardinality(AubEntries(acf[last.id])) =
            IF AubEntries(last.before.acf[last.id]) = {}
            THEN IF LastIndexOfBrace(last.before.acf[last.id], Len(last.before.acf[last.id])) = 0
                 THEN 0 ELSE 1
            ELSE Cardinality(AubEntries(last.before.acf[last.id]))

\* C39 witness: the id was installed twice; the first install inserted the
\* entry, the second one found it and left the appmanifest as it was
C39_ReinstalledOverInsertedKey ==
  /\ HookRan /\ last.fault.kind # "hook" /\ ops = 2 /\ last.id = "570"
  /\ last.before.acf["570"] = <<"{", "other", "{", "other", "}", "AUB1", "}">>
  /\ acf["570"] = last.before.acf["570"]

\* C32: downloadManifest reports success exactly when the call added or
\* replaced the record of the id: an install step that returns success leaves
\* a record of the id in the ledger, and one that returns success = false
\* leaves installed.json exactly as it was before the step.
C32_FailureLeavesLedger ==
  Install =>
    /\ last.out.res.success =>
         \E i \in 1..Len(GetInstalledGames(ledger)) :
           GetInstalledGames(ledger)[i] = BuiltRecord
    /\ ~last.out.res.success => ledger = last.before.ledger

\* the same without the two failures that come after the record is handed to
\* writeFileSync: a write torn half-way and the unlink of the archive
FailureBeforeWrite ==
  (Install /\ last.fault.kind \notin {"unlink", "writeTorn"}) => C32_FailureLeavesLedger

\* C33: the record of an archive install lists only files of the payload
\* downloaded in that call: what an earlier install or attempt left in
\* manifests/<id> is neither copied nor recorded again.
C33_RecordOnlyFromPayload ==
  (ArchiveInstall /\ last.out.res.success) =>
    LET files == RecordOf(ledger, last.id).files
    IN \A i \in 1..Len(files) :
         \E e \in last.payload.entries : DestPath(e.name) = files[i].path

\* the same for installs that found manifests/<id> empty
FreshDirRecordsPayload ==
  (ArchiveInstall /\ last.before.extractDir[last.id] = {}) => C33_RecordOnlyFromPayload

\* the paths a record lists
PathsOf(game) == {game.files[i].path : i \in 1..Len(game.files)}

\* C34: after removeGame(A) succeeds, every file that the record of another
\* id B lists and that was on disk before the removal is still on disk, also
\* when the bundles of A and B held a file of the same name.
C34_RemoveKeepsOthersFiles ==
  (last.op = "removeGame" /\ last.out.res.success) =>
    LET games == GetInstalledGames(ledger)
    IN \A i \in 1..Len(games) :
         (PathsOf(games[i]) \cap last.before.disk) \subseteq disk

\* the same for removals of a record that shares no path with another one
DisjointRemoveKeepsFiles ==
  LET old == GetInstalledGames(last.before.ledger)
  IN (/\ last.op = "removeGame"
      /\ \A i, j \in 1..Len(old) :
            (old[i].appId = last.id /\ old[j].appId # last.id) =>
              PathsOf(old[i]) \cap PathsOf(old[j]) = {})
       => C34_RemoveKeepsOthersFiles

\* the ledger after the first n updates of the log, each applied to what the
\* one before left
RECURSIVE Replay(_, _)
Replay(log, n) ==
  IF n = 0 THEN << >>
  ELSE LET rest == SelectSeq(Replay(log, n - 1), LAMBDA g : g.appId # log[n].id)
       IN IF log[n].op = "upsert" THEN Append(rest, log[n].game) ELSE rest

\* C35: however downloadManifest and removeGame calls overlap in the main
\* process, no ledger update is lost: installed.json holds what the upserts
\* and removals give when each is applied, in the order they ran, to the
\* ledger the previous one left.
C35_NoLostUpdate ==
  GetInstalledGames(ledger) = Replay(flight.log, Len(flight.log))

\* C35 witness: two installs were in flight together, both ids are recorded
C35_OverlappingInstallsBothRecorded ==
  /\ flight.overlapped
  /\ \A k \in 1..2 : flight.calls[k].kind = "install" /\ flight.calls[k].state = "done"
  /\ flight.calls[1].id # flight.calls[2].id
  /\ Len(flight.log) >= 2
  /\ Len(GetInstalledGames(ledger)) = 2

\* C31: in one downloadOnlineFix call up_fix is requested at most once, and
\* only when the first scan of the uploads page found no link; the page is
\* then loaded again at most once, and only with new cookies, before the
\* call goes on to the folder and archive search.
C31_UpFixAtMostOnce ==
  /\ fix.upFix <= 1 /\ fix.reloads <= 1
  /\ fix.upFix = 1 => fix.firstScan = "zero"
  /\ fix.reloads = 1 => fix.upFix = 1
  /\ fix.phase \in {"upFix", "reload"} => fix.firstScan = "zero"

\* C31 witness: the page showed no link after the reload either, and the
\* call went on to the search and the download with one request made
C31_StillNoLinkAfterRetry ==
  /\ fix.phase = "downloading"
  /\ fix.firstScan = "zero" /\ fix.links = "zero"
  /\ fix.upFix = 1 /\ fix.reloads = 1

\* C37: in the online-fix extractAndInstall the alternative extraction runs
\* while the downloaded archive still exists; the archive is deleted only
\* after the last extraction attempt.
C37_AlternativeSeesArchive ==
  /\ fix.phase = "altExec" => fix.archive = "present"
  /\ fix.altSawArchive \in {"none", "present"}

\* the alternative extraction can only succeed when the unlink failed
AlternativeNeedsArchive ==
  (fix.phase = "done" /\ fix.altSawArchive = "absent") => ~fix.res.success

\* C36: whenever the Add/Remove button is in remove mode, the id its click
\* handler removes is the id of the game displayed, also when another game
\* was searched while a download or a removal for a different game was in
\* flight.
C36_RemoveTargetsShownGame ==
  ui.button.mode = "remove" => ClickTarget = ui.shown

\* the same when every search and every click was made with nothing in
\* flight and the button update of the last one has run
IdlePageRemovesShownGame ==
  (~ui.overlap /\ ui.updates = {}) => C36_RemoveTargetsShownGame

\* a search made while a download was in flight has left game 440 displayed
\* and the enabled button removing 570, with nothing left to run
StaleRemoveButton ==
  /\ ~Busy /\ ui.shown = "440"
  /\ ui.button = [mode |-> "remove", target |-> "570", disabled |-> FALSE]

\* C38: downloadAndInstall opens a cached installer only when it was
\* downloaded completely: after a failed, timed-out or interrupted download
\* no file of more than 1 MB is left at the cache path, and no call opens a
\* truncated installer.
C38_NoTruncatedInstaller ==
  /\ tools.phase \in {"idle", "done"} => tools.file # "partialLarge"
  /\ tools.opened # "partialLarge"

\* the same while the application never quit during a download and every
\* timeout was followed by the response's 'error'
UninterruptedLeavesNoPartial ==
  (~tools.quit /\ ~tools.silent) => C38_NoTruncatedInstaller

\* a later call has opened an installer that is cut short
TruncatedInstallerOpened == tools.opened = "partialLarge" /\ tools.res.success

====
